---- MODULE Spec2Model ----
(***************************************************************************)
(* Model of the drug-interaction dashboard (DrugInteractionDashboard) and  *)
(* its dataset manager (DatasetManager).                                   *)
(*                                                                         *)
(* A JavaScript string is a sequence of one-character strings, so that     *)
(* toLowerCase, trim, includes, split, endsWith and replace are computed   *)
(* character by character, as the engine computes them.                    *)
(***************************************************************************)
EXTENDS Integers, Sequences, FiniteSets, TLC

VARIABLES
    \* ---- DrugInteractionDashboard (src/unnamed/part_000:78-85)
    drugs,             \* DrugEntry[]
    patientAllergies,  \* the allergy field (string)
    currentDrug,       \* the add-medication form
    analyzing,         \* busy flag
    results,           \* InteractionResult[]
    allergyAlerts,     \* AllergyAlert[]
    activeDataset,     \* DrugInteractionData[] | null, the engine's table
    timers,            \* pending setTimeout callbacks, each with its closure
    \* ---- DatasetManager (src/src/components/DatasetManager.tsx:45-49)
    datasets,          \* Dataset[]
    activeDatasetId,   \* the manager's activeDataset: string | null
    uploading,         \* upload busy flag
    inputFiles,        \* event.target.files of the file input: <<>> or <<file>>
    reads,             \* pending file.text() promises of handleFileUpload
    toast,             \* the last notification raised
    \* ---- environment
    now                \* Date.now()

dashVars == <<drugs, patientAllergies, currentDrug, analyzing, results,
              allergyAlerts, timers>>
mgrVars == <<datasets, activeDatasetId, uploading, inputFiles, reads, toast>>
vars == <<drugs, patientAllergies, currentDrug, analyzing, results,
          allergyAlerts, activeDataset, timers, datasets, activeDatasetId,
          uploading, inputFiles, reads, toast, now>>

----------------------------------------------------------------------------
(* Strings                                                                 *)

\* the element of a singleton set.  A variable bound over {e} holds the value
\* of e, computed once, where a LET definition is computed anew at each use:
\* Only({f(x) : x \in {e}}) is f(e) with e computed once
Only(S) == CHOOSE x \in S : TRUE

Upper == <<"A","B","C","D","E","F","G","H","I","J","K","L","M",
           "N","O","P","Q","R","S","T","U","V","W","X","Y","Z">>
LowerLetters == <<"a","b","c","d","e","f","g","h","i","j","k","l","m",
                  "n","o","p","q","r","s","t","u","v","w","x","y","z">>

\* String.prototype.toLowerCase on one character (ASCII)
LowerChar(c) ==
    IF \E k \in 1..Len(Upper) : Upper[k] = c
    THEN LowerLetters[CHOOSE k \in 1..Len(Upper) : Upper[k] = c]
    ELSE c

\* String.prototype.toLowerCase
ToLowerCase(s) == Only({ [k \in 1..Len(v) |-> LowerChar(v[k])] : v \in {s} })

\* the characters String.prototype.trim removes
WhiteSpace == {" ", "\t", "\n", "\r"}

\* String.prototype.trim: from the first to the last character that is no
\* white space
Trim(s) ==
    Only({ Only({ IF keep = {} THEN <<>>
                  ELSE SubSeq(v, CHOOSE k \in keep : \A j \in keep : k <= j,
                                 CHOOSE k \in keep : \A j \in keep : j <= k)
                  : keep \in {{k \in 1..Len(v) : v[k] \notin WhiteSpace}} })
           : v \in {s} })

\* String.prototype.includes: t occurs in s as a contiguous substring
Includes(s, t) ==
    \E a \in {s}, b \in {t} :
        \E k \in 0..(Len(a) - Len(b)) : SubSeq(a, k + 1, k + Len(b)) = b

\* String.prototype.endsWith
EndsWith(s, t) ==
    \E a \in {s}, b \in {t} :
        Len(b) <= Len(a) /\ SubSeq(a, Len(a) - Len(b) + 1, Len(a)) = b

\* String.prototype.split on a one-character separator: the pieces between
\* successive occurrences of sep
Split(s, sep) ==
    Only({ Only({ LET \* the position of the i-th separator; 0 and Len(v) + 1
                      \* bracket the text
                      cut(i) == IF i = 0 THEN 0
                                ELSE IF i > Cardinality(at) THEN Len(v) + 1
                                ELSE CHOOSE k \in at :
                                        Cardinality({j \in at : j < k}) = i - 1
                  IN  [i \in 1..(Cardinality(at) + 1) |->
                          SubSeq(v, cut(i - 1) + 1, cut(i) - 1)]
                  : at \in {{k \in 1..Len(v) : v[k] = sep}} })
           : v \in {s} })

\* String.prototype.replace(/c/g, '')
RemoveAll(s, c) == SelectSeq(s, LAMBDA x : x # c)

\* concatenation of a sequence of sequences (the order of successive push calls)
RECURSIVE Flatten(_)
Flatten(ss) == IF ss = <<>> THEN <<>> ELSE Head(ss) \o Flatten(Tail(ss))

RECURSIVE Join(_, _)
Join(parts, sep) ==
    IF parts = <<>> THEN <<>>
    ELSE IF Len(parts) = 1 THEN parts[1]
    ELSE parts[1] \o sep \o Join(Tail(parts), sep)

File(name, text) == [name |-> name, text |-> text]

----------------------------------------------------------------------------
(* JavaScript values held in a dataset record.  A CSV record holds only    *)
(* strings; JSON.parse may put any JSON value in a field.                  *)

Str(s) == [t |-> "string", s |-> s]
Num(digits) == [t |-> "number", s |-> digits]
Undefined == [t |-> "undefined", s |-> <<>>]
JsNull == [t |-> "null", s |-> <<>>]
JsTrue == [t |-> "boolean", s |-> <<"t","r","u","e">>]
JsFalse == [t |-> "boolean", s |-> <<"f","a","l","s","e">>]

\* ToBoolean, as applied by && and || and by filter's callback result
Truthy(v) ==
    CASE v.t = "string" -> v.s # <<>>
      [] v.t = "number" -> \E k \in 1..Len(v.s) : v.s[k] \notin {"0", "-", "."}
      [] v.t = "boolean" -> v = JsTrue
      [] v.t \in {"array", "object"} -> TRUE
      [] OTHER -> FALSE

\* a || b
Or(a, b) == Only({ IF Truthy(x) THEN x ELSE b : x \in {a} })

----------------------------------------------------------------------------
(* DrugInteractionDashboard: constants                                     *)

severe == <<"s","e","v","e","r","e">>
moderate == <<"m","o","d","e","r","a","t","e">>
mild == <<"m","i","l","d">>

mockInteractions ==
    << [severity |-> Str(severe),
        drugs |-> <<<<"W","a","r","f","a","r","i","n">>, <<"A","s","p","i","r","i","n">>>>,
        description |-> Str(<<"I","n","c","r","e","a","s","e","d"," ","r","i","s","k"," ","o","f"," ","b","l","e","e","d","i","n","g"," ","w","h","e","n"," ","u","s","e","d"," ","t","o","g","e","t","h","e","r">>),
        recommendation |-> Str(<<"C","o","n","s","i","d","e","r"," ","a","l","t","e","r","n","a","t","i","v","e"," ","a","n","t","i","p","l","a","t","e","l","e","t"," ","t","h","e","r","a","p","y"," ","o","r"," ","a","d","j","u","s","t"," ","w","a","r","f","a","r","i","n"," ","d","o","s","i","n","g"," ","w","i","t","h"," ","f","r","e","q","u","e","n","t"," ","m","o","n","i","t","o","r","i","n","g">>)],
       [severity |-> Str(moderate),
        drugs |-> <<<<"M","e","t","f","o","r","m","i","n">>, <<"C","o","n","t","r","a","s","t"," ","A","g","e","n","t">>>>,
        description |-> Str(<<"R","i","s","k"," ","o","f"," ","l","a","c","t","i","c"," ","a","c","i","d","o","s","i","s"," ","w","i","t","h"," ","c","o","n","t","r","a","s","t"," ","p","r","o","c","e","d","u","r","e","s">>),
        recommendation |-> Str(<<"D","i","s","c","o","n","t","i","n","u","e"," ","m","e","t","f","o","r","m","i","n"," ","4","8"," ","h","o","u","r","s"," ","b","e","f","o","r","e"," ","a","n","d"," ","a","f","t","e","r"," ","c","o","n","t","r","a","s","t"," ","a","d","m","i","n","i","s","t","r","a","t","i","o","n">>)] >>

\* in Object.entries order
commonAllergicReactions ==
    << [allergen |-> <<"p","e","n","i","c","i","l","l","i","n">>,
        allergens |-> <<<<"p","e","n","i","c","i","l","l","i","n">>, <<"a","m","o","x","i","c","i","l","l","i","n">>, <<"a","m","p","i","c","i","l","l","i","n">>>>,
        symptoms |-> <<"R","a","s","h",","," ","h","i","v","e","s",","," ","s","w","e","l","l","i","n","g",","," ","d","i","f","f","i","c","u","l","t","y"," ","b","r","e","a","t","h","i","n","g">>,
        severity |-> severe],
       [allergen |-> <<"s","u","l","f","a">>,
        allergens |-> <<<<"s","u","l","f","a","m","e","t","h","o","x","a","z","o","l","e">>, <<"t","r","i","m","e","t","h","o","p","r","i","m">>, <<"s","u","l","f","a","s","a","l","a","z","i","n","e">>>>,
        symptoms |-> <<"S","k","i","n"," ","r","a","s","h",","," ","f","e","v","e","r",","," ","n","a","u","s","e","a">>,
        severity |-> moderate],
       [allergen |-> <<"a","s","p","i","r","i","n">>,
        allergens |-> <<<<"a","s","p","i","r","i","n">>, <<"a","c","e","t","y","l","s","a","l","i","c","y","l","i","c"," ","a","c","i","d">>>>,
        symptoms |-> <<"B","r","e","a","t","h","i","n","g"," ","p","r","o","b","l","e","m","s",","," ","h","i","v","e","s",","," ","s","t","o","m","a","c","h"," ","u","p","s","e","t">>,
        severity |-> moderate],
       [allergen |-> <<"i","o","d","i","n","e">>,
        allergens |-> <<<<"i","o","d","i","n","e">>, <<"c","o","n","t","r","a","s","t"," ","d","y","e">>>>,
        symptoms |-> <<"S","k","i","n"," ","r","e","a","c","t","i","o","n","s",","," ","b","r","e","a","t","h","i","n","g"," ","d","i","f","f","i","c","u","l","t","i","e","s">>,
        severity |-> severe],
       [allergen |-> <<"l","a","t","e","x">>,
        allergens |-> <<<<"l","a","t","e","x">>>>,
        symptoms |-> <<"S","k","i","n"," ","i","r","r","i","t","a","t","i","o","n",","," ","r","e","s","p","i","r","a","t","o","r","y"," ","s","y","m","p","t","o","m","s">>,
        severity |-> mild] >>

\* useState<DrugInteractionData[] | null>(null)
NullTable == [null |-> TRUE, data |-> <<>>]
Table(data) == [null |-> FALSE, data |-> data]

EmptyDrug == [name |-> <<>>, dosage |-> <<>>, frequency |-> <<>>]

----------------------------------------------------------------------------
(* checkAllergies                                                          *)

\* DirectMatch testing one direction of containment only
DirectMatchOneWay(drugLower, allergyLower) == Includes(drugLower, allergyLower)

\* the "Direct match" condition
DirectMatch(drugLower, allergyLower) ==
    Includes(drugLower, allergyLower) \/ Includes(allergyLower, drugLower)

DirectAlert(drug, allergy) ==
    [drug |-> drug.name,
     allergen |-> allergy,
     severity |-> severe,
     symptoms |-> <<"A","l","l","e","r","g","i","c"," ","r","e","a","c","t","i","o","n"," ","p","o","s","s","i","b","l","e">>,
     recommendation |-> <<"A","V","O","I","D"," ">> \o drug.name \o <<" ","-"," ","P","a","t","i","e","n","t"," ","i","s"," ","a","l","l","e","r","g","i","c"," ","t","o"," ">> \o allergy]

\* ClassMatch with every in place of some
ClassMatchEvery(drugLower, allergyLower, info) ==
    /\ Includes(allergyLower, info.allergen)
    /\ \A k \in 1..Len(info.allergens) : Includes(drugLower, info.allergens[k])

\* the condition of the known-allergen-class check for one class
ClassMatch(drugLower, allergyLower, info) ==
    /\ Includes(allergyLower, info.allergen)
    /\ \E k \in 1..Len(info.allergens) : Includes(drugLower, info.allergens[k])

ClassAlert(drug, allergy, info) ==
    [drug |-> drug.name,
     allergen |-> allergy,
     severity |-> info.severity,
     symptoms |-> info.symptoms,
     recommendation |-> <<"C","O","N","T","R","A","I","N","D","I","C","A","T","E","D"," ","-"," ">> \o drug.name \o <<" ","c","o","n","t","a","i","n","s"," ">> \o info.allergen \o <<" ","w","h","i","c","h"," ","p","a","t","i","e","n","t"," ","i","s"," ","a","l","l","e","r","g","i","c"," ","t","o">>]

\* AlertsFor merging the findings of a pair: the class findings are dropped
\* when the direct rule fires
AlertsForDeduplicated(drug, allergy) ==
    LET allergyLower == ToLowerCase(Trim(allergy))
        drugLower == ToLowerCase(drug.name)
    IN  IF DirectMatch(drugLower, allergyLower)
        THEN <<DirectAlert(drug, allergy)>>
        ELSE Flatten([c \in 1..Len(commonAllergicReactions) |->
                IF ClassMatch(drugLower, allergyLower, commonAllergicReactions[c])
                THEN <<ClassAlert(drug, allergy, commonAllergicReactions[c])>>
                ELSE <<>>])

\* the alerts pushed by the body of the inner forEach for one (drug, allergy)
AlertsFor(drug, allergy) ==
    LET allergyLower == ToLowerCase(Trim(allergy))
        drugLower == ToLowerCase(drug.name)
    IN  (IF DirectMatch(drugLower, allergyLower)
         THEN <<DirectAlert(drug, allergy)>> ELSE <<>>)
        \o Flatten([c \in 1..Len(commonAllergicReactions) |->
              IF ClassMatch(drugLower, allergyLower, commonAllergicReactions[c])
              THEN <<ClassAlert(drug, allergy, commonAllergicReactions[c])>>
              ELSE <<>>])

checkAllergies(ds, allergies) ==
    Flatten([d \in 1..Len(ds) |->
        Flatten([a \in 1..Len(allergies) |-> AlertsFor(ds[d], allergies[a])])])

\* patientAllergies.split(',').map(a => a.trim()).filter(a => a)
NonEmpty(s) == s # <<>>
AllergiesList(text) ==
    LET parts == Split(text, ",")
    IN  SelectSeq([k \in 1..Len(parts) |-> Trim(parts[k])], NonEmpty)

FoundAllergies(ds, text) ==
    IF Trim(text) # <<>> THEN checkAllergies(ds, AllergiesList(text)) ELSE <<>>

----------------------------------------------------------------------------
(* analyzeInteractions: the interaction lookup over the active table       *)

\* item.field.toLowerCase() throws a TypeError unless the field is a string
IsString(v) == v.t = "string"

\* FindPredicate comparing drug1 with drug1 and drug2 with drug2 only
FindPredicateUnswapped(item, drug1, drug2) ==
    LET i1 == ToLowerCase(item.drug1.s)
        i2 == ToLowerCase(item.drug2.s)
    IN  \/ (Includes(i1, drug1) /\ Includes(i2, drug2))
        \/ (i1 = drug1 /\ i2 = drug2)

\* the callback of activeDataset.find, for an item whose drug1 and drug2
\* are strings (drug1 and drug2 here are the lowercased entered names)
FindPredicate(item, drug1, drug2) ==
    LET i1 == ToLowerCase(item.drug1.s)
        i2 == ToLowerCase(item.drug2.s)
    IN  \/ (Includes(i1, drug1) /\ Includes(i2, drug2))
        \/ (Includes(i1, drug2) /\ Includes(i2, drug1))
        \/ (i1 = drug1 /\ i2 = drug2)
        \/ (i1 = drug2 /\ i2 = drug1)

\* whether evaluating the callback on the item throws: item.drug1 is always
\* lowercased; item.drug2 only once the left operand of an && is true
FindPredicateThrows(item, drug1, drug2) ==
    \/ ~IsString(item.drug1)
    \/ /\ ~IsString(item.drug2)
       /\ LET i1 == ToLowerCase(item.drug1.s)
          IN  Includes(i1, drug1) \/ Includes(i1, drug2) \/ i1 = drug1 \/ i1 = drug2

\* Find keeping the last accepted item instead of the first
RECURSIVE FindLast(_, _, _)
FindLast(table, drug1, drug2) ==
    IF table = <<>> THEN [kind |-> "none", item |-> <<>>]
    ELSE IF FindPredicateThrows(Head(table), drug1, drug2)
         THEN [kind |-> "throw", item |-> <<>>]
    ELSE LET rest == FindLast(Tail(table), drug1, drug2)
         IN  IF rest.kind # "none" THEN rest
             ELSE IF FindPredicate(Head(table), drug1, drug2)
                  THEN [kind |-> "found", item |-> <<Head(table)>>]
             ELSE rest

\* activeDataset.find(...): the first item the callback accepts, in table
\* order; "throw" when the callback throws before an item is accepted
RECURSIVE Find(_, _, _)
Find(table, drug1, drug2) ==
    IF table = <<>> THEN [kind |-> "none", item |-> <<>>]
    ELSE IF FindPredicateThrows(Head(table), drug1, drug2)
         THEN [kind |-> "throw", item |-> <<>>]
    ELSE IF FindPredicate(Head(table), drug1, drug2)
         THEN [kind |-> "found", item |-> <<Head(table)>>]
    ELSE Find(Tail(table), drug1, drug2)

\* the index pairs (i, j), i < j, in the order of the two nested for loops
RECURSIVE PairsFrom(_, _, _)
PairsFrom(i, j, n) ==
    IF i >= n THEN <<>>
    ELSE IF j > n THEN PairsFrom(i + 1, i + 2, n)
    ELSE <<<<i, j>>>> \o PairsFrom(i, j + 1, n)

Pairs(n) == PairsFrom(1, 2, n)

\* the lookup of the loop body for the pair (i, j)
Lookup(ds, table, pr) ==
    Find(table, ToLowerCase(ds[pr[1]].name), ToLowerCase(ds[pr[2]].name))

\* the InteractionResult pushed for a pair whose lookup found an item
InteractionFor(ds, pr, item) ==
    [severity |-> item.severity,
     drugs |-> <<ds[pr[1]].name, ds[pr[2]].name>>,
     description |-> item.description,
     recommendation |-> item.recommendation]

\* foundInteractions after the loops over the uploaded table
DatasetInteractions(ds, table) ==
    LET prs == Pairs(Len(ds))
    IN  Flatten([k \in 1..Len(prs) |->
            LET f == Lookup(ds, table, prs[k])
            IN  IF f.kind = "found"
                THEN <<InteractionFor(ds, prs[k], f.item[1])>>
                ELSE <<>>])

\* whether the loops end in an uncaught TypeError
DatasetThrows(ds, table) ==
    LET prs == Pairs(Len(ds))
    IN  \E k \in 1..Len(prs) : Lookup(ds, table, prs[k]).kind = "throw"

\* if (activeDataset && activeDataset.length > 0)
UsesDataset(tbl) == ~tbl.null /\ Len(tbl.data) > 0

\* FoundInteractions running the (empty) lookup when no dataset is active
FoundInteractionsNoMock(ds, tbl) == DatasetInteractions(ds, tbl.data)

FoundInteractions(ds, tbl) ==
    IF UsesDataset(tbl) THEN DatasetInteractions(ds, tbl.data) ELSE mockInteractions

\* the timer callback throws before any setter is called
CallbackThrows(ds, tbl) == UsesDataset(tbl) /\ DatasetThrows(ds, tbl.data)

----------------------------------------------------------------------------
(* DrugInteractionDashboard: handlers                                      *)

\* onChange of the drug name / dosage / frequency inputs
SetCurrentDrug(name, dosage, frequency) ==
    /\ currentDrug' = [name |-> name, dosage |-> dosage, frequency |-> frequency]
    /\ UNCHANGED <<drugs, patientAllergies, analyzing, results, allergyAlerts,
                   activeDataset, timers, now>>
    /\ UNCHANGED mgrVars

\* onChange of the allergies input
SetPatientAllergies(text) ==
    /\ patientAllergies' = text
    /\ UNCHANGED <<drugs, currentDrug, analyzing, results, allergyAlerts,
                   activeDataset, timers, now>>
    /\ UNCHANGED mgrVars

NewDrug(id, form) ==
    [id |-> id, name |-> form.name, dosage |-> form.dosage,
     frequency |-> form.frequency]

MaxDrugs == 3

addDrug ==
    /\ Trim(currentDrug.name) # <<>>
    /\ Len(drugs) < MaxDrugs
    /\ drugs' = Append(drugs, NewDrug(now, currentDrug))
    /\ currentDrug' = EmptyDrug
    /\ UNCHANGED <<patientAllergies, analyzing, results, allergyAlerts,
                   activeDataset, timers, now>>
    /\ UNCHANGED mgrVars

RemoveById(ds, id) == SelectSeq(ds, LAMBDA d : d.id # id)

\* removeDrug discarding the findings along with the entry
removeDrugClearingFindings(k) ==
    /\ k \in 1..Len(drugs)
    /\ drugs' = RemoveById(drugs, drugs[k].id)
    /\ results' = <<>>
    /\ allergyAlerts' = <<>>
    /\ UNCHANGED <<patientAllergies, currentDrug, analyzing, activeDataset, timers, now>>
    /\ UNCHANGED mgrVars

\* the X button of the entry at position k
removeDrug(k) ==
    /\ k \in 1..Len(drugs)
    /\ drugs' = RemoveById(drugs, drugs[k].id)
    /\ UNCHANGED <<patientAllergies, currentDrug, analyzing, results,
                   allergyAlerts, activeDataset, timers, now>>
    /\ UNCHANGED mgrVars

\* the analyze button disabled only by the length of the medication list
AnalyzeEnabledWhileBusy == Len(drugs) >= 2

\* disabled={analyzing || drugs.length < 2}
AnalyzeEnabled == ~analyzing /\ Len(drugs) >= 2

\* the values the timer callback closes over
Closure == [drugs |-> drugs, patientAllergies |-> patientAllergies,
            activeDataset |-> activeDataset]

\* the click: setAnalyzing(true) and setTimeout(callback, 2000)
analyzeInteractions ==
    /\ AnalyzeEnabled
    /\ analyzing' = TRUE
    /\ timers' = Append(timers, Closure)
    /\ UNCHANGED <<drugs, patientAllergies, currentDrug, results, allergyAlerts,
                   activeDataset, now>>
    /\ UNCHANGED mgrVars

\* AnalyzeTimeout reading the medication list, the allergy text and the
\* table as they are when the timer fires
AnalyzeTimeoutCurrentState ==
    /\ timers # <<>>
    /\ timers' = Tail(timers)
    /\ IF CallbackThrows(drugs, activeDataset)
       THEN UNCHANGED <<results, allergyAlerts, analyzing>>
       ELSE /\ results' = FoundInteractions(drugs, activeDataset)
            /\ allergyAlerts' = FoundAllergies(drugs, patientAllergies)
            /\ analyzing' = FALSE
    /\ UNCHANGED <<drugs, patientAllergies, currentDrug, activeDataset, now>>
    /\ UNCHANGED mgrVars

\* the timer fires: the callback runs on the values it closed over
AnalyzeTimeout ==
    /\ timers # <<>>
    /\ timers' = Tail(timers)
    /\ LET c == Head(timers)
       IN  IF CallbackThrows(c.drugs, c.activeDataset)
           THEN UNCHANGED <<results, allergyAlerts, analyzing>>
           ELSE /\ results' = FoundInteractions(c.drugs, c.activeDataset)
                /\ allergyAlerts' = FoundAllergies(c.drugs, c.patientAllergies)
                /\ analyzing' = FALSE
    /\ UNCHANGED <<drugs, patientAllergies, currentDrug, activeDataset, now>>
    /\ UNCHANGED mgrVars

----------------------------------------------------------------------------
(* JSON.parse, by recursive descent over the characters of the text.       *)
(* Covered: arrays, objects, strings with the escapes \" \\ \/ \n \t \r,   *)
(* numbers (integer part and fraction), true, false, null, white space.    *)

Arr(elems) == [t |-> "array", s |-> <<>>, elems |-> elems]
Obj(members) == [t |-> "object", s |-> <<>>, members |-> members]

Digits == {"0","1","2","3","4","5","6","7","8","9"}

ParseFail == [ok |-> FALSE, pos |-> 0, v |-> Undefined]
ParseOk(p, v) == [ok |-> TRUE, pos |-> p, v |-> v]

\* the first position from p on that holds no character of S (Len(s) + 1
\* when there is none)
SkipOver(s, p, S) ==
    LET stop == {k \in p..Len(s) : s[k] \notin S}
    IN  IF stop = {} THEN Len(s) + 1 ELSE CHOOSE k \in stop : \A j \in stop : k <= j

SkipWs(s, p) == IF p > Len(s) THEN p ELSE SkipOver(s, p, WhiteSpace)

\* whether the characters of lit stand in s from position p on
MatchAt(s, p, lit) ==
    p + Len(lit) - 1 <= Len(s) /\ SubSeq(s, p, p + Len(lit) - 1) = lit

EscapeOf(c) ==
    CASE c = "n" -> "\n"
      [] c = "t" -> "\t"
      [] c = "r" -> "\r"
      [] OTHER -> c

\* whether the backslash at position k, in a string literal starting at p,
\* starts an escape: it is at an odd place in its run of backslashes
StartsEscape(s, p, k) ==
    /\ s[k] = "\\"
    /\ LET runStart == CHOOSE i \in p..k :
                          /\ \A j \in i..k : s[j] = "\\"
                          /\ (i = p \/ s[i - 1] # "\\")
       IN  (k - runStart) % 2 = 0

\* a string literal: p is past the opening quote.  The literal ends at the
\* first quote that no backslash escapes
ScanString(s, p) ==
    Only({ IF ends = {} THEN ParseFail
           ELSE Only({ IF \E k \in p..(q - 1) :
                            \/ s[k] \in {"\n", "\t", "\r"}
                            \/ /\ k > p /\ StartsEscape(s, p, k - 1)
                               /\ s[k] \notin {"\"", "\\", "/", "n", "t", "r"}
                       THEN ParseFail
                       ELSE Only({ ParseOk(q + 1, Str(
                                     [n \in 1..Len(kept) |->
                                        IF kept[n] > p /\ StartsEscape(s, p, kept[n] - 1)
                                        THEN EscapeOf(s[kept[n]])
                                        ELSE s[kept[n]]]))
                                   : kept \in {SelectSeq([k \in 1..(q - p) |-> p + k - 1],
                                                         LAMBDA i : ~StartsEscape(s, p, i))} })
                       : q \in {CHOOSE k \in ends : \A j \in ends : k <= j} })
           : ends \in {{q \in p..Len(s) :
                          s[q] = "\"" /\ ~(q > p /\ StartsEscape(s, p, q - 1))}} })

SkipDigits(s, p) == IF p > Len(s) THEN p ELSE SkipOver(s, p, Digits)

\* -? (0 | [1-9][0-9]*) (. [0-9]+)?
ScanNumber(s, p) ==
    Only({ Only({ Only({ IF j = i \/ (k # j /\ k = j + 1) THEN ParseFail
                         ELSE ParseOk(k, Num(SubSeq(s, p, k - 1)))
                         : k \in {IF j <= Len(s) /\ s[j] = "."
                                  THEN SkipDigits(s, j + 1) ELSE j} })
                  : j \in {IF i <= Len(s) /\ s[i] = "0" THEN i + 1
                           ELSE SkipDigits(s, i)} })
           : i \in {IF s[p] = "-" THEN p + 1 ELSE p} })

RECURSIVE ParseValue(_, _)
RECURSIVE ParseElements(_, _, _)
RECURSIVE ParseMembers(_, _, _)

\* p is at the first character of the value
ParseValue(s, p) ==
    IF p > Len(s) THEN ParseFail
    ELSE IF s[p] = "\"" THEN ScanString(s, p + 1)
    ELSE IF s[p] = "["
         THEN Only({ IF q <= Len(s) /\ s[q] = "]" THEN ParseOk(q + 1, Arr(<<>>))
                     ELSE ParseElements(s, q, <<>>)
                     : q \in {SkipWs(s, p + 1)} })
    ELSE IF s[p] = "{"
         THEN Only({ IF q <= Len(s) /\ s[q] = "}" THEN ParseOk(q + 1, Obj(<<>>))
                     ELSE ParseMembers(s, q, <<>>)
                     : q \in {SkipWs(s, p + 1)} })
    ELSE IF s[p] \in Digits \cup {"-"} THEN ScanNumber(s, p)
    ELSE IF MatchAt(s, p, <<"n","u","l","l">>) THEN ParseOk(p + 4, JsNull)
    ELSE IF MatchAt(s, p, <<"t","r","u","e">>) THEN ParseOk(p + 4, JsTrue)
    ELSE IF MatchAt(s, p, <<"f","a","l","s","e">>) THEN ParseOk(p + 5, JsFalse)
    ELSE ParseFail

\* after the element r: the closing bracket, or a comma and the next element
ElementsAfter(s, r, acc) ==
    Only({ IF q > Len(s) THEN ParseFail
           ELSE IF s[q] = "]" THEN ParseOk(q + 1, Arr(elems))
           ELSE IF s[q] = ","
                THEN Only({ ParseElements(s, n, elems) : n \in {SkipWs(s, q + 1)} })
           ELSE ParseFail
           : q \in {SkipWs(s, r.pos)}, elems \in {Append(acc, r.v)} })

\* p is at the first character of an element; acc holds the elements read
ParseElements(s, p, acc) ==
    Only({ IF ~r.ok THEN ParseFail ELSE ElementsAfter(s, r, acc)
           : r \in {ParseValue(s, p)} })

\* after the member of key k and value r: the closing brace, or a comma and
\* the next member
MembersAfter(s, k, r, acc) ==
    Only({ IF q > Len(s) THEN ParseFail
           ELSE IF s[q] = "}" THEN ParseOk(q + 1, Obj(m))
           ELSE IF s[q] = ","
                THEN Only({ ParseMembers(s, n, m) : n \in {SkipWs(s, q + 1)} })
           ELSE ParseFail
           : q \in {SkipWs(s, r.pos)}, m \in {Append(acc, [k |-> k.v.s, v |-> r.v])} })

\* after the key k: the colon and the member's value
MemberValue(s, k, acc) ==
    Only({ IF c > Len(s) \/ s[c] # ":" THEN ParseFail
           ELSE Only({ IF ~r.ok THEN ParseFail ELSE MembersAfter(s, k, r, acc)
                       : r \in {Only({ ParseValue(s, p) : p \in {SkipWs(s, c + 1)} })} })
           : c \in {SkipWs(s, k.pos)} })

\* p is at the opening quote of a member's key
ParseMembers(s, p, acc) ==
    IF p > Len(s) \/ s[p] # "\"" THEN ParseFail
    ELSE Only({ IF ~k.ok THEN ParseFail ELSE MemberValue(s, k, acc)
                : k \in {ScanString(s, p + 1)} })

\* JSON.parse(text): ok = FALSE stands for the SyntaxError it throws
JsonParse(text) ==
    Only({ Only({ IF r.ok /\ SkipWs(s, r.pos) = Len(s) + 1 THEN r ELSE ParseFail
                  : r \in {Only({ ParseValue(s, p) : p \in {SkipWs(s, 1)} })} })
           : s \in {text} })

\* value.key for a parsed value that is not null: of an object the member
\* of that key (the last one, when the text repeats the key), else undefined
GetProp(v, key) ==
    IF v.t = "object" /\ \E k \in 1..Len(v.members) : v.members[k].k = key
    THEN LET last == CHOOSE k \in 1..Len(v.members) :
                        /\ v.members[k].k = key
                        /\ \A j \in (k + 1)..Len(v.members) : v.members[j].k # key
             w == v.members[last].v
         IN  [t |-> w.t, s |-> w.s]
    ELSE Undefined

----------------------------------------------------------------------------
(* DatasetManager: handleFileUpload's parsing and validation               *)

\* a File: [name |-> string, text |-> string]; file.size is the length of
\* the text (one byte per character)

\* headers: lines[0].split(',').map(h => h.trim().toLowerCase())
CsvHeaders(lines) ==
    Only({ [k \in 1..Len(hs) |-> ToLowerCase(Trim(hs[k]))]
           : hs \in {Split(lines[1], ",")} })

\* values: line.split(',').map(v => v.trim().replace(/"/g, ''))
CsvValues(line) ==
    Only({ [k \in 1..Len(vs) |-> RemoveAll(Trim(vs[k]), "\"")]
           : vs \in {Split(line, ",")} })

\* obj[key] after headers.forEach((header, index) => obj[header] =
\* values[index] || ''): the last column of that header wins
CsvObj(headers, values, key) ==
    IF \E k \in 1..Len(headers) : headers[k] = key
    THEN LET last == CHOOSE k \in 1..Len(headers) :
                        /\ headers[k] = key
                        /\ \A j \in (k + 1)..Len(headers) : headers[j] # key
         IN  IF last <= Len(values) THEN Str(values[last]) ELSE Str(<<>>)
    ELSE Undefined

\* CsvRecord falling back to 'mild' for a severity outside the allowed set
CsvRecordValidated(headers, line) ==
  Only({
    LET obj(key) == CsvObj(headers, values, key)
        empty == Str(<<>>)
        sev == ToLowerCase(Or(obj(<<"s","e","v","e","r","i","t","y">>), Str(mild)).s)
    IN  [drug1 |-> Or(Or(Or(obj(<<"d","r","u","g","1">>), obj(<<"d","r","u","g"," ","1">>)), obj(<<"d","r","u","g","n","a","m","e","1">>)), empty),
         drug2 |-> Or(Or(Or(obj(<<"d","r","u","g","2">>), obj(<<"d","r","u","g"," ","2">>)), obj(<<"d","r","u","g","n","a","m","e","2">>)), empty),
         severity |-> Str(IF sev \in {severe, moderate, mild, <<"s","a","f","e">>} THEN sev ELSE mild),
         description |-> Or(Or(obj(<<"d","e","s","c","r","i","p","t","i","o","n">>), obj(<<"i","n","t","e","r","a","c","t","i","o","n">>)), empty),
         recommendation |-> Or(Or(obj(<<"r","e","c","o","m","m","e","n","d","a","t","i","o","n">>), obj(<<"a","d","v","i","c","e">>)), empty),
         mechanism |-> Or(obj(<<"m","e","c","h","a","n","i","s","m">>), empty),
         evidence_level |-> Or(Or(obj(<<"e","v","i","d","e","n","c","e","_","l","e","v","e","l">>), obj(<<"e","v","i","d","e","n","c","e"," ","l","e","v","e","l">>)), empty)]
    : values \in {CsvValues(line)} })

\* the object the map callback returns for one data line
CsvRecord(headers, line) ==
  Only({
    LET obj(key) == CsvObj(headers, values, key)
        empty == Str(<<>>)
    IN  [drug1 |-> Or(Or(Or(obj(<<"d","r","u","g","1">>), obj(<<"d","r","u","g"," ","1">>)), obj(<<"d","r","u","g","n","a","m","e","1">>)), empty),
         drug2 |-> Or(Or(Or(obj(<<"d","r","u","g","2">>), obj(<<"d","r","u","g"," ","2">>)), obj(<<"d","r","u","g","n","a","m","e","2">>)), empty),
         severity |-> Str(ToLowerCase(Or(obj(<<"s","e","v","e","r","i","t","y">>), Str(mild)).s)),
         description |-> Or(Or(obj(<<"d","e","s","c","r","i","p","t","i","o","n">>), obj(<<"i","n","t","e","r","a","c","t","i","o","n">>)), empty),
         recommendation |-> Or(Or(obj(<<"r","e","c","o","m","m","e","n","d","a","t","i","o","n">>), obj(<<"a","d","v","i","c","e">>)), empty),
         mechanism |-> Or(obj(<<"m","e","c","h","a","n","i","s","m">>), empty),
         evidence_level |-> Or(Or(obj(<<"e","v","i","d","e","n","c","e","_","l","e","v","e","l">>), obj(<<"e","v","i","d","e","n","c","e"," ","l","e","v","e","l">>)), empty)]
    : values \in {CsvValues(line)} })

NonBlank(line) == Trim(line) # <<>>

\* the "Simple CSV parser"
ParseCsv(text) ==
    Only({ Only({ [k \in 1..Len(rows) |-> CsvRecord(headers, rows[k])]
                  : headers \in {CsvHeaders(lines)},
                    rows \in {SelectSeq(Tail(lines), NonBlank)} })
           : lines \in {Split(text, "\n")} })

\* the fields of DrugInteractionData read off an element of the parsed JSON
JsonRecord(item) ==
    [drug1 |-> GetProp(item, <<"d","r","u","g","1">>),
     drug2 |-> GetProp(item, <<"d","r","u","g","2">>),
     severity |-> GetProp(item, <<"s","e","v","e","r","i","t","y">>),
     description |-> GetProp(item, <<"d","e","s","c","r","i","p","t","i","o","n">>),
     recommendation |-> GetProp(item, <<"r","e","c","o","m","m","e","n","d","a","t","i","o","n">>),
     mechanism |-> GetProp(item, <<"m","e","c","h","a","n","i","s","m">>),
     evidence_level |-> GetProp(item, <<"e","v","i","d","e","n","c","e","_","l","e","v","e","l">>)]

\* the filter callback: item.drug1 && item.drug2 && item.severity && item.description
IsValid(item) ==
    Truthy(item.drug1) /\ Truthy(item.drug2) /\ Truthy(item.severity)
        /\ Truthy(item.description)

validData(parsedData) == SelectSeq(parsedData, IsValid)

Thrown(message) == [threw |-> TRUE, message |-> message, parsedData |-> <<>>]
Parsed(parsedData) == [threw |-> FALSE, message |-> "", parsedData |-> parsedData]

\* ParseFile sending every name that does not end in .json to the CSV parser
ParseFileCsvDefault(file) ==
    IF EndsWith(file.name, <<".","j","s","o","n">>)
    THEN Only({ IF ~r.ok THEN Thrown("SyntaxError")
                ELSE IF r.v.t # "array" THEN Thrown("TypeError")
                ELSE IF \E k \in 1..Len(r.v.elems) : r.v.elems[k].t = "null"
                     THEN Thrown("TypeError")
                ELSE Parsed([k \in 1..Len(r.v.elems) |-> JsonRecord(r.v.elems[k])])
                : r \in {JsonParse(file.text)} })
    ELSE Parsed(ParseCsv(file.text))

\* parsedData as the filter callback sees it, or the exception thrown on
\* the way: JSON.parse's SyntaxError, or the TypeError of calling filter on
\* a value that is no array or of reading item.drug1 of null
ParseFile(file) ==
    IF EndsWith(file.name, <<".","j","s","o","n">>)
    THEN Only({ IF ~r.ok THEN Thrown("SyntaxError")
                ELSE IF r.v.t # "array" THEN Thrown("TypeError")
                ELSE IF \E k \in 1..Len(r.v.elems) : r.v.elems[k].t = "null"
                     THEN Thrown("TypeError")
                ELSE Parsed([k \in 1..Len(r.v.elems) |-> JsonRecord(r.v.elems[k])])
                : r \in {JsonParse(file.text)} })
    ELSE IF EndsWith(file.name, <<".","c","s","v">>) THEN Parsed(ParseCsv(file.text))
    ELSE Parsed(<<>>)

NoValidData == "No valid drug interaction data found in file"

\* Ingest without the check that a valid record remains
IngestNoEmptyCheck(file) ==
    Only({ IF p.threw THEN p ELSE Parsed(validData(p.parsedData))
           : p \in {ParseFile(file)} })

\* the try block up to the validation: the valid records, or the exception
Ingest(file) ==
    Only({ IF p.threw THEN p
           ELSE Only({ IF Len(kept) = 0 THEN Thrown(NoValidData) ELSE Parsed(kept)
                       : kept \in {validData(p.parsedData)} })
           : p \in {ParseFile(file)} })

\* file.name.replace(/\.[^/.]+$/, ""): drops a last extension
StripExtension(name) ==
    IF \E k \in 1..(Len(name) - 1) :
          /\ name[k] = "."
          /\ \A j \in (k + 1)..Len(name) : name[j] \notin {".", "/"}
    THEN LET k == CHOOSE k \in 1..(Len(name) - 1) :
                      /\ name[k] = "."
                      /\ \A j \in (k + 1)..Len(name) : name[j] \notin {".", "/"}
         IN  SubSeq(name, 1, k - 1)
    ELSE name

\* (file.size / 1024).toFixed(1), in tenths of a KB
FileSizeTenths(size) == (size * 20 + 1024) \div 2048

\* new Date().toISOString().split('T')[0], as the day number of the clock
UploadDate(ms) == ms \div 86400000

newDataset(file, data, ms) ==
    [id |-> ms,
     name |-> StripExtension(file.name),
     uploadDate |-> UploadDate(ms),
     rowCount |-> Len(data),
     fileSize |-> FileSizeTenths(Len(file.text)),
     status |-> "active",
     data |-> data]

----------------------------------------------------------------------------
(* DatasetManager: handlers                                                *)

\* useState<string | null>(null)
NullId == [null |-> TRUE, id |-> 0]
Id(id) == [null |-> FALSE, id |-> id]

NoToast == [title |-> "", variant |-> "", message |-> "", count |-> 0, name |-> <<>>]

UploadedToast(n, fileName) ==
    [title |-> "Dataset uploaded successfully", variant |-> "default",
     message |-> "drug interactions loaded from", count |-> n, name |-> fileName]

FailedToast(message) ==
    [title |-> "Upload failed", variant |-> "destructive",
     message |-> message, count |-> 0, name |-> <<>>]

ActivatedToast(datasetName) ==
    [title |-> "Dataset activated", variant |-> "default",
     message |-> "Now using for drug interaction analysis", count |-> 0,
     name |-> datasetName]

DeactivatedToast ==
    [title |-> "Dataset deactivated", variant |-> "default",
     message |-> "Switched back to default drug interaction data", count |-> 0,
     name |-> <<>>]

DeletedToast ==
    [title |-> "Dataset deleted", variant |-> "default",
     message |-> "Dataset has been removed from the system", count |-> 0,
     name |-> <<>>]

MaxDatasets == 2

RemoveAt(s, k) == SubSeq(s, 1, k - 1) \o SubSeq(s, k + 1, Len(s))

\* handleFileUpload on a file input that stays enabled during an upload
handleFileUploadNotDisabled(file) ==
    /\ Len(datasets) < MaxDatasets
    /\ inputFiles' = <<file>>
    /\ uploading' = TRUE
    /\ reads' = Append(reads, file)
    /\ UNCHANGED <<datasets, activeDatasetId, toast, activeDataset, now>>
    /\ UNCHANGED dashVars

\* the change event of the file input (disabled while uploading), up to
\* the await of file.text()
handleFileUpload(file) ==
    /\ ~uploading
    /\ Len(datasets) < MaxDatasets
    /\ inputFiles' = <<file>>
    /\ uploading' = TRUE
    /\ reads' = Append(reads, file)
    /\ UNCHANGED <<datasets, activeDatasetId, toast, activeDataset, now>>
    /\ UNCHANGED dashVars

\* FileTextResolves making the ingested dataset the active one
FileTextResolvesActivating(k) ==
    /\ k \in 1..Len(reads)
    /\ reads' = RemoveAt(reads, k)
    /\ \E file \in {reads[k]} : \E r \in {Ingest(file)} :
           IF r.threw
           THEN /\ toast' = FailedToast(r.message)
                /\ UNCHANGED <<datasets, activeDatasetId, activeDataset>>
           ELSE /\ datasets' = Append(datasets, newDataset(file, r.parsedData, now))
                /\ toast' = UploadedToast(Len(r.parsedData), file.name)
                /\ activeDatasetId' = Id(now)
                /\ activeDataset' = Table(r.parsedData)
    /\ uploading' = FALSE
    /\ UNCHANGED <<inputFiles, now>>
    /\ UNCHANGED dashVars

\* file.text() resolves: the rest of the try block, catch and finally
FileTextResolves(k) ==
    /\ k \in 1..Len(reads)
    /\ reads' = RemoveAt(reads, k)
    /\ \E file \in {reads[k]} : \E r \in {Ingest(file)} :
           IF r.threw
           THEN /\ toast' = FailedToast(r.message)
                /\ UNCHANGED datasets
           ELSE /\ datasets' = Append(datasets, newDataset(file, r.parsedData, now))
                /\ toast' = UploadedToast(Len(r.parsedData), file.name)
    /\ uploading' = FALSE
    /\ UNCHANGED <<activeDatasetId, inputFiles, activeDataset, now>>
    /\ UNCHANGED dashVars

\* file.text() rejects (the file can no longer be read): catch and finally
FileTextRejects(k) ==
    /\ k \in 1..Len(reads)
    /\ reads' = RemoveAt(reads, k)
    /\ toast' = FailedToast("Failed to parse dataset")
    /\ uploading' = FALSE
    /\ UNCHANGED <<datasets, activeDatasetId, inputFiles, activeDataset, now>>
    /\ UNCHANGED dashVars

\* datasets.find(d => d.id === datasetId)
FindDataset(ds, datasetId) ==
    ds[CHOOSE k \in 1..Len(ds) :
          ds[k].id = datasetId /\ \A j \in 1..(k - 1) : ds[j].id # datasetId]

IsActive(d) == ~activeDatasetId.null /\ activeDatasetId.id = d.id

\* the activate button of card k (shown when the card is not the active one)
activateDataset(k) ==
    /\ k \in 1..Len(datasets)
    /\ ~IsActive(datasets[k])
    /\ LET dataset == FindDataset(datasets, datasets[k].id)
       IN  /\ activeDatasetId' = Id(datasets[k].id)
           /\ activeDataset' = Table(dataset.data)
           /\ toast' = ActivatedToast(dataset.name)
    /\ UNCHANGED <<datasets, uploading, inputFiles, reads, now>>
    /\ UNCHANGED dashVars

\* the Deactivate button of card k (shown on the active card)
deactivateDataset(k) ==
    /\ k \in 1..Len(datasets)
    /\ IsActive(datasets[k])
    /\ activeDatasetId' = NullId
    /\ activeDataset' = NullTable
    /\ toast' = DeactivatedToast
    /\ UNCHANGED <<datasets, uploading, inputFiles, reads, now>>
    /\ UNCHANGED dashVars

\* deleteDataset leaving the active id and the dashboard's table alone
deleteDatasetKeepActive(k) ==
    /\ k \in 1..Len(datasets)
    /\ datasets' = SelectSeq(datasets, LAMBDA d : d.id # datasets[k].id)
    /\ toast' = DeletedToast
    /\ UNCHANGED <<activeDatasetId, activeDataset, uploading, inputFiles, reads, now>>
    /\ UNCHANGED dashVars

\* deleteDataset deactivating whichever dataset is active
deleteDatasetAlwaysDeactivates(k) ==
    /\ k \in 1..Len(datasets)
    /\ datasets' = SelectSeq(datasets, LAMBDA d : d.id # datasets[k].id)
    /\ activeDatasetId' = NullId
    /\ activeDataset' = NullTable
    /\ toast' = DeletedToast
    /\ UNCHANGED <<uploading, inputFiles, reads, now>>
    /\ UNCHANGED dashVars

\* the delete button of card k
deleteDataset(k) ==
    /\ k \in 1..Len(datasets)
    /\ datasets' = SelectSeq(datasets, LAMBDA d : d.id # datasets[k].id)
    /\ IF IsActive(datasets[k])
       THEN activeDatasetId' = NullId /\ activeDataset' = NullTable
       ELSE UNCHANGED <<activeDatasetId, activeDataset>>
    /\ toast' = DeletedToast
    /\ UNCHANGED <<uploading, inputFiles, reads, now>>
    /\ UNCHANGED dashVars

----------------------------------------------------------------------------
(* DatasetManager: exportDataset and JSON.stringify(dataset.data, null, 2). *)
(* A record is serialized with its properties in the order the CSV path    *)
(* creates them; a property that is undefined is left out.  Of a nested    *)
(* array or object the record keeps only the type, written here as [] or   *)
(* {}.                                                                     *)

\* QuoteJSONString writing every character as it is
QuoteJSONStringNoEscape(s) == <<"\"">> \o s \o <<"\"">>

\* QuoteJSONString: the quote, the backslash and the control characters
\* are escaped
QuoteJSONString(s) ==
    <<"\"">> \o
    Flatten([k \in 1..Len(s) |->
        CASE s[k] = "\"" -> <<"\\", "\"">>
          [] s[k] = "\\" -> <<"\\", "\\">>
          [] s[k] = "\n" -> <<"\\", "n">>
          [] s[k] = "\r" -> <<"\\", "r">>
          [] s[k] = "\t" -> <<"\\", "t">>
          [] OTHER -> <<s[k]>>]) \o
    <<"\"">>

\* Number::toString of the number a JSON numeral denotes: no trailing
\* zeros in the fraction, and -0 is written 0
NumberToString(digits) ==
    Only({ IF t = <<"-","0">> THEN <<"0">> ELSE t
           : t \in {IF \E k \in 1..Len(digits) : digits[k] = "."
                    THEN Only({ IF digits[last] = "." THEN SubSeq(digits, 1, last - 1)
                                ELSE SubSeq(digits, 1, last)
                                : last \in {CHOOSE k \in 1..Len(digits) :
                                              /\ digits[k] # "0"
                                              /\ \A j \in (k + 1)..Len(digits) : digits[j] = "0"} })
                    ELSE digits} })

\* SerializeJSONProperty of a value that is not undefined
SerializeJSONProperty(v) ==
    CASE v.t = "string" -> QuoteJSONString(v.s)
      [] v.t = "number" -> NumberToString(v.s)
      [] v.t = "boolean" -> v.s
      [] v.t = "array" -> <<"[","]">>
      [] v.t = "object" -> <<"{","}">>
      [] OTHER -> <<"n","u","l","l">>

\* the properties of a record, in creation order
RecordMembers(rec) ==
    << [k |-> <<"d","r","u","g","1">>, v |-> rec.drug1],
       [k |-> <<"d","r","u","g","2">>, v |-> rec.drug2],
       [k |-> <<"s","e","v","e","r","i","t","y">>, v |-> rec.severity],
       [k |-> <<"d","e","s","c","r","i","p","t","i","o","n">>, v |-> rec.description],
       [k |-> <<"r","e","c","o","m","m","e","n","d","a","t","i","o","n">>, v |-> rec.recommendation],
       [k |-> <<"m","e","c","h","a","n","i","s","m">>, v |-> rec.mechanism],
       [k |-> <<"e","v","i","d","e","n","c","e","_","l","e","v","e","l">>, v |-> rec.evidence_level] >>

\* SerializeJSONObject at the second level of indentation (gap of 2)
SerializeJSONObject(rec) ==
    Only({ IF ms = <<>> THEN <<"{","}">>
           ELSE <<"{","\n">> \o
                Join([k \in 1..Len(ms) |->
                        <<" "," "," "," ">> \o QuoteJSONString(ms[k].k) \o <<":"," ">>
                            \o SerializeJSONProperty(ms[k].v)], <<",","\n">>) \o
                <<"\n"," "," ","}">>
           : ms \in {SelectSeq(RecordMembers(rec), LAMBDA m : m.v.t # "undefined")} })

\* JSON.stringify(data, null, 2) of a record list
JsonStringify(data) ==
    IF data = <<>> THEN <<"[","]">>
    ELSE <<"[","\n">> \o
         Join([k \in 1..Len(data) |-> <<" "," ">> \o SerializeJSONObject(data[k])], <<",","\n">>) \o
         <<"\n","]">>

\* the file the export button of a card downloads
exportDataset(dataset) ==
    File(dataset.name \o <<"_","e","x","p","o","r","t",".","j","s","o","n">>, JsonStringify(dataset.data))

----------------------------------------------------------------------------
(* The clock read by Date.now()                                            *)

MaxNow == 2

Tick ==
    /\ now < MaxNow
    /\ now' = now + 1
    /\ UNCHANGED <<activeDataset>>
    /\ UNCHANGED dashVars
    /\ UNCHANGED mgrVars

----------------------------------------------------------------------------
(* Initial state and the inputs of the handlers                            *)

Init ==
    /\ drugs = <<>>
    /\ patientAllergies = <<>>
    /\ currentDrug = EmptyDrug
    /\ analyzing = FALSE
    /\ results = <<>>
    /\ allergyAlerts = <<>>
    /\ activeDataset = NullTable
    /\ timers = <<>>
    /\ datasets = <<>>
    /\ activeDatasetId = NullId
    /\ uploading = FALSE
    /\ inputFiles = <<>>
    /\ reads = <<>>
    /\ toast = NoToast
    /\ now = 0


\* all sequences over S of length at most n
SeqsUpTo(S, n) == UNION {[1..m -> S] : m \in 0..n}

\* ---- medication names typed into the form
DrugNames == { <<"A","s","p","i","r","i","n">>, <<"w","a","r">>, <<"W","a","r","f","a","r","i","n">>, <<"A","m","o","x","i","c","i","l","l","i","n">> }

\* ---- texts typed into the allergy field
AllergyTexts ==
    { <<>>,
      <<"p","e","n","i","c","i","l","l","i","n">>,
      <<"a","s","p","i","r","i","n",","," ","W","a","r","f","a","r","i","n"," ","s","o","d","i","u","m">>,
      <<" ",",","P","e","n","i","c","i","l","l","i","n"," ","V"," ",",","a","s","p">> }

\* ---- uploaded tables the analysis runs against
TableFile1 ==
    File(<<"i","n","t","e","r","a","c","t","i","o","n","s",".","c","s","v">>,
         Join(<< <<"d","r","u","g","1",",","d","r","u","g","2",",","s","e","v","e","r","i","t","y",",","d","e","s","c","r","i","p","t","i","o","n",",","r","e","c","o","m","m","e","n","d","a","t","i","o","n">>,
                 <<"A","s","p","i","r","i","n",",","W","a","r","f","a","r","i","n",",","s","e","v","e","r","e",",","d","1",",","r","1">>,
                 <<"w","a","r","f","a","r","i","n"," ","s","o","d","i","u","m",",","A","S","P","I","R","I","N",",","m","i","l","d",",","d","2",",","r","2">> >>, <<"\n">>))

TableFile2 ==
    File(<<"a","l","i","a","s",".","c","s","v">>,
         Join(<< <<"D","r","u","g"," ","1",",","D","r","u","g"," ","2",",","S","e","v","e","r","i","t","y",",","I","n","t","e","r","a","c","t","i","o","n">>,
                 <<"A","m","o","x","i","c","i","l","l","i","n",",","W","a","r","f","a","r","i","n",",","M","o","d","e","r","a","t","e",",","d","3">>,
                 <<"W","a","r","f","a","r","i","n",",","A","s","p","i","r","i","n",",","s","a","f","e",",","d","4">> >>, <<"\n">>))

TableFile3 ==
    File(<<"m","i","x","e","d",".","j","s","o","n">>,
         <<"[">> \o Join(<<
             <<"{","\"","d","r","u","g","1","\"",":","\"","A","m","o","x","i","c","i","l","l","i","n","\"",",","\"","d","r","u","g","2","\"",":","\"","A","s","p","i","r","i","n","\"",",","\"","s","e","v","e","r","i","t","y","\"",":","\"","m","i","l","d","\"",",","\"","d","e","s","c","r","i","p","t","i","o","n","\"",":","\"","d","5","\"","}">>,
             <<"{","\"","d","r","u","g","1","\"",":","\"","W","a","r","f","a","r","i","n","\"",",","\"","d","r","u","g","2","\"",":","1","2",",","\"","s","e","v","e","r","i","t","y","\"",":","\"","s","e","v","e","r","e","\"",",","\"","d","e","s","c","r","i","p","t","i","o","n","\"",":","\"","d","6","\"","}">>,
             <<"{","\"","d","r","u","g","1","\"",":","7",",","\"","d","r","u","g","2","\"",":","\"","W","a","r","f","a","r","i","n","\"",",","\"","s","e","v","e","r","i","t","y","\"",":","\"","s","e","v","e","r","e","\"",",","\"","d","e","s","c","r","i","p","t","i","o","n","\"",":","\"","d","7","\"","}">>
           >>, <<",">>) \o <<"]">>)

\* a record as the CSV path builds it, and as this JSON holds it
CsvRow(drug1, drug2, severity, description, recommendation) ==
    [drug1 |-> Str(drug1), drug2 |-> Str(drug2), severity |-> Str(severity),
     description |-> Str(description), recommendation |-> Str(recommendation),
     mechanism |-> Str(<<>>), evidence_level |-> Str(<<>>)]

JsonRow(drug1, drug2, severity, description) ==
    [drug1 |-> drug1, drug2 |-> drug2, severity |-> Str(severity),
     description |-> Str(description), recommendation |-> Undefined,
     mechanism |-> Undefined, evidence_level |-> Undefined]

\* validData of the three files (UploadedTablesIngested checks them)
TableData1 ==
    << CsvRow(<<"A","s","p","i","r","i","n">>, <<"W","a","r","f","a","r","i","n">>, <<"s","e","v","e","r","e">>, <<"d","1">>, <<"r","1">>),
       CsvRow(<<"w","a","r","f","a","r","i","n"," ","s","o","d","i","u","m">>, <<"A","S","P","I","R","I","N">>, <<"m","i","l","d">>, <<"d","2">>, <<"r","2">>) >>

TableData2 ==
    << CsvRow(<<"A","m","o","x","i","c","i","l","l","i","n">>, <<"W","a","r","f","a","r","i","n">>, <<"m","o","d","e","r","a","t","e">>, <<"d","3">>, <<>>),
       CsvRow(<<"W","a","r","f","a","r","i","n">>, <<"A","s","p","i","r","i","n">>, <<"s","a","f","e">>, <<"d","4">>, <<>>) >>

TableData3 ==
    << JsonRow(Str(<<"A","m","o","x","i","c","i","l","l","i","n">>), Str(<<"A","s","p","i","r","i","n">>), <<"m","i","l","d">>, <<"d","5">>),
       JsonRow(Str(<<"W","a","r","f","a","r","i","n">>), Num(<<"1","2">>), <<"s","e","v","e","r","e">>, <<"d","6">>),
       JsonRow(Num(<<"7">>), Str(<<"W","a","r","f","a","r","i","n">>), <<"s","e","v","e","r","e">>, <<"d","7">>) >>

UploadedTables ==
    { [file |-> TableFile1, data |-> TableData1],
      [file |-> TableFile2, data |-> TableData2],
      [file |-> TableFile3, data |-> TableData3] }

UploadedTablesIngested ==
    \A u \in UploadedTables : Ingest(u.file) = Parsed(u.data)

----------------
(* SpecAnalysis: the analysis, from states in which the medications, the   *)
(* allergy text and the active table have been entered                     *)

\* the list after the names were added at successive clock values 1, 2, ...
DrugsOf(names) ==
    [k \in 1..Len(names) |-> NewDrug(k, [name |-> names[k], dosage |-> <<>>,
                                          frequency |-> <<>>])]

InitAnalysis ==
    /\ \E names \in SeqsUpTo(DrugNames, MaxDrugs) :
          /\ drugs = DrugsOf(names)
          /\ now = Len(names)
    /\ patientAllergies \in AllergyTexts
    /\ currentDrug = EmptyDrug
    /\ analyzing = FALSE
    /\ results = <<>>
    /\ allergyAlerts = <<>>
    /\ timers = <<>>
    /\ \/ /\ datasets = <<>>
          /\ activeDatasetId = NullId
          /\ activeDataset = NullTable
          /\ inputFiles = <<>>
          /\ toast = NoToast
       \/ \E u \in UploadedTables :
             /\ datasets = <<newDataset(u.file, u.data, 0)>>
             /\ activeDatasetId = Id(0)
             /\ activeDataset = Table(u.data)
             /\ inputFiles = <<u.file>>
             /\ toast = ActivatedToast(StripExtension(u.file.name))
    /\ uploading = FALSE
    /\ reads = <<>>

NextAnalysis ==
    \/ analyzeInteractions
    \/ AnalyzeTimeout

SpecAnalysis == InitAnalysis /\ [][NextAnalysis]_vars

----------------------------------------------------------------------------
(* SpecNames: the analysis of names that extend a record's name or carry   *)
(* white space, with allergy terms that extend a name or carry white space *)

EnteredNames == { <<"A","s","p","i","r","i","n"," ","8","1","m","g">>, <<"W","a","r","f","a","r","i","n">>, <<" ","W","a","r","f","a","r","i","n">> }

EnteredAllergies == { <<"W","a","r","f","a","r","i","n"," ","s","o","d","i","u","m">>, <<" ","a","s","p","i","r","i","n"," ",",","w","a","r">>, <<"p","e","n","i","c","i","l","l","i","n">> }

InitNames ==
    /\ \E names \in SeqsUpTo(EnteredNames, MaxDrugs) :
          /\ drugs = DrugsOf(names)
          /\ now = Len(names)
    /\ patientAllergies \in EnteredAllergies
    /\ currentDrug = EmptyDrug
    /\ analyzing = FALSE
    /\ results = <<>>
    /\ allergyAlerts = <<>>
    /\ timers = <<>>
    /\ \/ /\ datasets = <<>>
          /\ activeDatasetId = NullId
          /\ activeDataset = NullTable
          /\ inputFiles = <<>>
          /\ toast = NoToast
       \/ /\ datasets = <<newDataset(TableFile1, TableData1, 0)>>
          /\ activeDatasetId = Id(0)
          /\ activeDataset = Table(TableData1)
          /\ inputFiles = <<TableFile1>>
          /\ toast = ActivatedToast(StripExtension(TableFile1.name))
    /\ uploading = FALSE
    /\ reads = <<>>

SpecNames == InitNames /\ [][NextAnalysis]_vars

----------------------------------------------------------------------------
(* SpecIngest: one upload, from the state in which a chosen file is being  *)
(* read (handleFileUpload has run up to its await)                         *)

MaxRows == 2

\* ---- elements of uploaded JSON arrays
JsonElems ==
    { <<"{","\"","d","r","u","g","1","\"",":","\"","a","\"",",","\"","d","r","u","g","2","\"",":","\"","b","\"",",","\"","s","e","v","e","r","i","t","y","\"",":","\"","m","i","l","d","\"",",","\"","d","e","s","c","r","i","p","t","i","o","n","\"",":","\"","x","\"","}">>,
      <<"{","\"","d","r","u","g","1","\"",":","\""," ","\"",",","\"","d","r","u","g","2","\"",":","\"","b","\"",",","\"","s","e","v","e","r","i","t","y","\"",":","\"","m","i","l","d","\"",",","\"","d","e","s","c","r","i","p","t","i","o","n","\"",":","\"","x","\"","}">>,
      <<"{","\"","d","r","u","g","1","\"",":","\"","c","\"",",","\"","d","r","u","g","2","\"",":","\"","d","\"",",","\"","d","e","s","c","r","i","p","t","i","o","n","\"",":","\"","y","\"","}">>,
      <<"{","\"","d","r","u","g","1","\"",":","\"","e","\"",",","\"","d","r","u","g","2","\"",":","5",",","\"","s","e","v","e","r","i","t","y","\"",":","\"","s","e","v","e","r","e","\"",",","\"","d","e","s","c","r","i","p","t","i","o","n","\"",":","\"","z","\"","}">> }

JsonTexts ==
    { <<"[">> \o Join(es, <<",">>) \o <<"]">> : es \in SeqsUpTo(JsonElems, MaxRows) }
      \cup { <<"{","\"","d","r","u","g","1","\"",":","\"","a","\"","}">>, <<"[","{","\"","d","r","u","g","1","\"",":">>, <<"[","n","u","l","l","]">> }

\* ---- header lines and data lines of uploaded CSV texts
CsvHeaderLines ==
    { <<"d","r","u","g","1",",","d","r","u","g","2",",","s","e","v","e","r","i","t","y",",","d","e","s","c","r","i","p","t","i","o","n">>,
      <<"D","r","u","g"," ","1",",","D","r","u","g"," ","2",",","I","n","t","e","r","a","c","t","i","o","n">> }

CsvDataLines ==
    { <<"a",",","b",",","m","i","l","d",",","x">>,
      <<"\""," ","\"",",","b",",","m","i","l","d",",","x">>,
      <<"c",",",",","S","e","v","e","r","e",",","y">>,
      <<"\"","c","\"",",","d",","," ","L","e","t","h","a","l"," ",",","y">>,
      <<"a","\"","b",",","c",",",",","x">>,
      <<" ">> }

CsvTexts ==
    { Join(<<h>> \o rows, <<"\n">>) :
        h \in CsvHeaderLines, rows \in SeqsUpTo(CsvDataLines, MaxRows) }

\* ---- names of uploaded files
FileNames ==
    { <<"t",".","j","s","o","n">>, <<"t",".","c","s","v">>, <<"d","a","t","a",".","t","x","t">>, <<"T",".","C","S","V">>, <<"t",".","j","s","o","n",".","b","a","k">> }

IngestFiles ==
    { File(name, text) : name \in FileNames, text \in JsonTexts \cup CsvTexts }

InitIngest ==
    /\ drugs = <<>>
    /\ patientAllergies = <<>>
    /\ currentDrug = EmptyDrug
    /\ analyzing = FALSE
    /\ results = <<>>
    /\ allergyAlerts = <<>>
    /\ activeDataset = NullTable
    /\ timers = <<>>
    /\ datasets = <<>>
    /\ activeDatasetId = NullId
    /\ uploading = TRUE
    /\ \E file \in IngestFiles :
          /\ inputFiles = <<file>>
          /\ reads = <<file>>
    /\ toast = NoToast
    /\ now = 0

NextIngest ==
    \/ FileTextResolves(1)
    \/ FileTextRejects(1)

SpecIngest == InitIngest /\ [][NextIngest]_vars

----------------------------------------------------------------------------
(* SpecDatasets: the dataset manager's handlers, from the initial state    *)

\* ---- files chosen in the file input
UploadFiles ==
    { TableFile1, TableFile3,
      File(<<"d","a","t","a",".","t","x","t">>, TableFile1.text),
      File(<<"b","r","o","k","e","n",".","j","s","o","n">>, <<"[","{","\"","d","r","u","g","1","\"",":">>),
      File(<<"e","m","p","t","y",".","c","s","v">>, <<"d","r","u","g","1",",","d","r","u","g","2",",","s","e","v","e","r","i","t","y",",","d","e","s","c","r","i","p","t","i","o","n">> \o <<"\n">> \o <<"a",",",",","m","i","l","d",",","x">>) }

NextDatasets ==
    \/ \E file \in UploadFiles : handleFileUpload(file)
    \/ \E k \in 1..Len(reads) : FileTextResolves(k)
    \/ \E k \in 1..Len(reads) : FileTextRejects(k)
    \/ \E k \in 1..Len(datasets) : activateDataset(k)
    \/ \E k \in 1..Len(datasets) : deactivateDataset(k)
    \/ \E k \in 1..Len(datasets) : deleteDataset(k)
    \/ Tick

SpecDatasets == Init /\ [][NextDatasets]_vars

----------------------------------------------------------------------------
(* SpecExport: uploads, exports that are uploaded again, and deletes       *)

\* a JSON file whose strings need escapes, with a number, a boolean and a
\* null in the optional fields
TableFile4 ==
    File(<<"e","s","c","a","p","e","s",".","j","s","o","n">>,
         <<"[","{","\"","d","r","u","g","1","\"",":","\"","a","\\","\"","b","\"",",","\"","d","r","u","g","2","\"",":","\"","c","\\","\\","d","\"",",","\"","s","e","v","e","r","i","t","y","\"",":","\"","m","i","l","d","\"",",","\"","d","e","s","c","r","i","p","t","i","o","n","\"",":","\"","x","\\","n","y","\\","t","z","\"",",","\"","r","e","c","o","m","m","e","n","d","a","t","i","o","n","\"",":","1",".","5","0",",","\"","m","e","c","h","a","n","i","s","m","\"",":","t","r","u","e",",","\"","e","v","i","d","e","n","c","e","_","l","e","v","e","l","\"",":","n","u","l","l","}","]">>)

ExportFiles == {TableFile1, TableFile3, TableFile4}

\* exports are taken of datasets with names up to this length, which keeps
\* the chain of exports of exports finite
MaxNameLen == 12

\* the export button of card k, and the downloaded file chosen in the file
\* input
uploadExported(k) ==
    /\ k \in 1..Len(datasets)
    /\ Len(datasets[k].name) <= MaxNameLen
    /\ \E file \in {exportDataset(datasets[k])} : handleFileUpload(file)

NextExport ==
    \/ \E file \in ExportFiles : handleFileUpload(file)
    \/ \E k \in 1..Len(datasets) : uploadExported(k)
    \/ \E k \in 1..Len(reads) : FileTextResolves(k)
    \/ \E k \in 1..Len(reads) : FileTextRejects(k)
    \/ \E k \in 1..Len(datasets) : deleteDataset(k)
    \/ Tick

SpecExport == Init /\ [][NextExport]_vars

----------------------------------------------------------------------------
(* SpecDashboard: the dashboard's handlers, from the initial state, with   *)
(* no dataset uploaded                                                     *)

NextDashboard ==
    \/ \E name \in {<<>>, <<"A","s","p","i","r","i","n">>} :
          SetCurrentDrug(name, <<>>, <<>>)
    \/ \E text \in {<<>>, <<"a","s","p","i","r","i","n">>} : SetPatientAllergies(text)
    \/ addDrug
    \/ \E k \in 1..Len(drugs) : removeDrug(k)
    \/ analyzeInteractions
    \/ AnalyzeTimeout
    \/ Tick

SpecDashboard == Init /\ [][NextDashboard]_vars

----------------------------------------------------------------------------
(* SpecSession: the handlers of the dashboard and of the manager together, *)
(* from a state in which two medications are entered, a third one is       *)
(* typed, and one dataset is uploaded and either active or not             *)

InitSession ==
    /\ drugs = <<NewDrug(0, [name |-> <<"A","s","p","i","r","i","n">>, dosage |-> <<>>, frequency |-> <<>>]),
                 NewDrug(1, [name |-> <<"W","a","r","f","a","r","i","n">>, dosage |-> <<>>, frequency |-> <<>>])>>
    /\ now = 1
    /\ patientAllergies = <<"a","s","p","i","r","i","n">>
    /\ currentDrug = [name |-> <<"A","m","o","x","i","c","i","l","l","i","n">>, dosage |-> <<>>, frequency |-> <<>>]
    /\ analyzing = FALSE
    /\ results = <<>>
    /\ allergyAlerts = <<>>
    /\ timers = <<>>
    /\ datasets = <<newDataset(TableFile1, TableData1, 0)>>
    /\ inputFiles = <<TableFile1>>
    /\ \/ /\ activeDatasetId = NullId
          /\ activeDataset = NullTable
          /\ toast = UploadedToast(Len(TableData1), TableFile1.name)
       \/ /\ activeDatasetId = Id(0)
          /\ activeDataset = Table(TableData1)
          /\ toast = ActivatedToast(StripExtension(TableFile1.name))
    /\ uploading = FALSE
    /\ reads = <<>>

NextSession ==
    \/ \E text \in {<<>>, <<"a","s","p","i","r","i","n">>} : SetPatientAllergies(text)
    \/ addDrug
    \/ \E k \in 1..Len(drugs) : removeDrug(k)
    \/ analyzeInteractions
    \/ AnalyzeTimeout
    \/ \E k \in 1..Len(datasets) : activateDataset(k)
    \/ \E k \in 1..Len(datasets) : deactivateDataset(k)
    \/ \E k \in 1..Len(datasets) : deleteDataset(k)
    \/ Tick

SpecSession == InitSession /\ [][NextSession]_vars

\* SpecFrame: every handler the user can reach, uploads included, with the
\* clock standing still
NextFrame ==
    \/ \E text \in {<<>>, <<"a","s","p","i","r","i","n">>} : SetPatientAllergies(text)
    \/ addDrug
    \/ \E k \in 1..Len(drugs) : removeDrug(k)
    \/ analyzeInteractions
    \/ AnalyzeTimeout
    \/ handleFileUpload(TableFile2)
    \/ \E k \in 1..Len(reads) : FileTextResolves(k)
    \/ \E k \in 1..Len(reads) : FileTextRejects(k)
    \/ \E k \in 1..Len(datasets) : activateDataset(k)
    \/ \E k \in 1..Len(datasets) : deactivateDataset(k)
    \/ \E k \in 1..Len(datasets) : deleteDataset(k)

SpecFrame == InitSession /\ [][NextFrame]_vars

----------------------------------------------------------------------------
(* Claims about the analysis (checked under SpecAnalysis)                  *)

\* the step in which the timer callback writes its findings; c is the
\* closure it ran on
AnalysisCompletes == analyzing /\ ~analyzing'

\* the pairs (i, j), 1 <= i < j <= n, in lexicographic order
PairsInOrder(n) ==
    LET all == {pr \in (1..n) \X (1..n) : pr[1] < pr[2]}
        before(a, b) == a[1] < b[1] \/ (a[1] = b[1] /\ a[2] < b[2])
    IN  [k \in 1..Cardinality(all) |->
            CHOOSE pr \in all : Cardinality({q \in all : before(q, pr)}) = k - 1]

\* the containment rule between a record and two entered names
RecordMatches(r, nameI, nameJ) ==
    /\ IsString(r.drug1) /\ IsString(r.drug2)
    /\ LET a == ToLowerCase(nameI)
           b == ToLowerCase(nameJ)
           r1 == ToLowerCase(r.drug1.s)
           r2 == ToLowerCase(r.drug2.s)
       IN  \/ (Includes(r1, a) /\ Includes(r2, b))
           \/ (Includes(r1, b) /\ Includes(r2, a))

SomeRecordMatches(T, nameI, nameJ) ==
    \E k \in 1..Len(T) : RecordMatches(T[k], nameI, nameJ)

\* the pairs of ds, in order, that some record of T matches
MatchingPairs(ds, T) ==
    SelectSeq(PairsInOrder(Len(ds)),
              LAMBDA pr : SomeRecordMatches(T, ds[pr[1]].name, ds[pr[2]].name))

FirstMatchingRecord(T, nameI, nameJ) ==
    T[CHOOSE k \in 1..Len(T) :
          /\ RecordMatches(T[k], nameI, nameJ)
          /\ \A j \in 1..(k - 1) : ~RecordMatches(T[j], nameI, nameJ)]

\* the step in which the timer callback of an analysis runs, to completion
\* or to the exception that ends it
CallbackRuns == timers # <<>> /\ timers' = Tail(timers)

\* C1: with a non-empty uploaded table active, the findings of an analysis
\* are, pair for pair and in loop order, the pairs (i < j) of entries for
\* which some record of the table contains the two lowercased names in
\* either assignment: one finding per matching pair, none for the others.
C1_FindingPerMatchingPair ==
    [][ (CallbackRuns /\ UsesDataset(Head(timers).activeDataset)) =>
          LET ds == Head(timers).drugs
              m == MatchingPairs(ds, Head(timers).activeDataset.data)
          IN  [k \in 1..Len(results') |-> results'[k].drugs]
                = [k \in 1..Len(m) |-> <<ds[m[k][1]].name, ds[m[k][2]].name>>]
      ]_vars

\* C1, of the analyses that complete: the findings written are the matching
\* pairs, pair for pair and in loop order.
C1_HoldsWhenAnalysisCompletes ==
    [][ (AnalysisCompletes /\ UsesDataset(Head(timers).activeDataset)) =>
          LET ds == Head(timers).drugs
              m == MatchingPairs(ds, Head(timers).activeDataset.data)
          IN  [k \in 1..Len(results') |-> results'[k].drugs]
                = [k \in 1..Len(m) |-> <<ds[m[k][1]].name, ds[m[k][2]].name>>]
      ]_vars

\* C2: each finding carries the severity, description and recommendation of
\* the first record, in table order, matching its pair, and the two names as
\* entered, entry i before entry j.
C2_FirstRecordWins ==
    [][ (AnalysisCompletes /\ UsesDataset(Head(timers).activeDataset)) =>
          LET ds == Head(timers).drugs
              T == Head(timers).activeDataset.data
              m == MatchingPairs(ds, T)
          IN  \A k \in 1..Len(results') :
                k <= Len(m) =>
                  LET r == FirstMatchingRecord(T, ds[m[k][1]].name, ds[m[k][2]].name)
                  IN  /\ results'[k].severity = r.severity
                      /\ results'[k].description = r.description
                      /\ results'[k].recommendation = r.recommendation
                      /\ results'[k].drugs[1] = ds[m[k][1]].name
                      /\ results'[k].drugs[2] = ds[m[k][2]].name
      ]_vars

\* a finding for a pair that two records of the table match, carrying the
\* fields of the first of them
C2_Witness ==
    /\ ~analyzing /\ UsesDataset(activeDataset)
    /\ \E k \in 1..Len(results) :
          LET T == activeDataset.data
              hits == {n \in 1..Len(T) :
                         RecordMatches(T[n], results[k].drugs[1], results[k].drugs[2])}
          IN  /\ Cardinality(hits) >= 2
              /\ \E n \in hits :
                    /\ \A j \in hits : n <= j
                    /\ results[k].description = T[n].description
                    /\ \E j \in hits : T[j].description # T[n].description

\* C3: an analysis started with no dataset active writes exactly the two
\* built-in sample findings, Warfarin + Aspirin (severe) then Metformin +
\* Contrast Agent (moderate), whatever the medication list holds.
C3_MockWhenNoDataset ==
    [][ (AnalysisCompletes /\ Head(timers).activeDataset.null) =>
          /\ results' = mockInteractions
          /\ Len(results') = 2
          /\ results'[1].drugs = << <<"W","a","r","f","a","r","i","n">>, <<"A","s","p","i","r","i","n">> >>
          /\ results'[1].severity = Str(<<"s","e","v","e","r","e">>)
          /\ results'[2].drugs = << <<"M","e","t","f","o","r","m","i","n">>, <<"C","o","n","t","r","a","s","t"," ","A","g","e","n","t">> >>
          /\ results'[2].severity = Str(<<"m","o","d","e","r","a","t","e">>)
      ]_vars

\* the sample findings are displayed for a list that holds neither Metformin
\* nor a contrast agent
C3_Witness ==
    /\ ~analyzing /\ activeDataset.null
    /\ results = mockInteractions
    /\ Len(drugs) >= 2
    /\ \A k \in 1..Len(drugs) : drugs[k].name \notin { <<"M","e","t","f","o","r","m","i","n">>, <<"W","a","r","f","a","r","i","n">>, <<"A","s","p","i","r","i","n">> }

\* the direct-substring premise, on the names as entered
DirectPremise(name, term) ==
    \/ Includes(ToLowerCase(name), ToLowerCase(term))
    \/ Includes(ToLowerCase(term), ToLowerCase(name))

IsAvoidAlert(alert, name, term) ==
    /\ alert.drug = name
    /\ alert.allergen = term
    /\ alert.severity = <<"s","e","v","e","r","e">>
    /\ SubSeq(alert.recommendation, 1, 5) = <<"A","V","O","I","D">>
    /\ Includes(alert.recommendation, name)
    /\ Includes(alert.recommendation, term)

\* C4: for every entry and every term of the allergy field, if one of the
\* two (lowercased) contains the other, the allergy findings written hold a
\* severe finding for that medication and term whose recommendation starts
\* with AVOID and names both.
C4_DirectSubstringRule ==
    [][ AnalysisCompletes =>
          LET ds == Head(timers).drugs
              terms == AllergiesList(Head(timers).patientAllergies)
          IN  \A d \in 1..Len(ds) : \A a \in 1..Len(terms) :
                DirectPremise(ds[d].name, terms[a]) =>
                  \E k \in 1..Len(allergyAlerts') :
                      IsAvoidAlert(allergyAlerts'[k], ds[d].name, terms[a])
      ]_vars

\* an AVOID finding for a term that strictly contains the medication name
C4_Witness ==
    /\ ~analyzing
    /\ \E k \in 1..Len(allergyAlerts) :
          /\ IsAvoidAlert(allergyAlerts[k], allergyAlerts[k].drug, allergyAlerts[k].allergen)
          /\ Len(allergyAlerts[k].allergen) > Len(allergyAlerts[k].drug)
          /\ \E d \in 1..Len(drugs) : drugs[d].name = allergyAlerts[k].drug

\* the class rule's condition, on the name and the term as entered
ClassPremise(name, term, info) ==
    /\ Includes(ToLowerCase(term), info.allergen)
    /\ \E k \in 1..Len(info.allergens) :
          Includes(ToLowerCase(name), info.allergens[k])

\* C5: for every (medication, term) pair and every class of the allergen
\* table, the findings written hold the class finding (the class's severity
\* and symptoms, a CONTRAINDICATED recommendation) if and only if the
\* lowercased term contains the class key and the lowercased name contains
\* one of the class's representative substrings.
C5_AllergenClassRule ==
    [][ AnalysisCompletes =>
          LET ds == Head(timers).drugs
              terms == AllergiesList(Head(timers).patientAllergies)
          IN  \A d \in 1..Len(ds) : \A a \in 1..Len(terms) :
              \A c \in 1..Len(commonAllergicReactions) :
                LET info == commonAllergicReactions[c]
                    rec == <<"C","O","N","T","R","A","I","N","D","I","C","A","T","E","D"," ","-"," ">> \o ds[d].name \o <<" ","c","o","n","t","a","i","n","s"," ">>
                             \o info.allergen \o <<" ","w","h","i","c","h"," ","p","a","t","i","e","n","t"," ","i","s"," ","a","l","l","e","r","g","i","c"," ","t","o">>
                IN  ClassPremise(ds[d].name, terms[a], info)
                    <=> \E k \in 1..Len(allergyAlerts') :
                          /\ allergyAlerts'[k].drug = ds[d].name
                          /\ allergyAlerts'[k].allergen = terms[a]
                          /\ allergyAlerts'[k].severity = info.severity
                          /\ allergyAlerts'[k].symptoms = info.symptoms
                          /\ allergyAlerts'[k].recommendation = rec
      ]_vars

\* allergy "penicillin" with medication "Amoxicillin": a severe finding of
\* the penicillin class
C5_Witness ==
    /\ ~analyzing
    /\ \E k \in 1..Len(allergyAlerts) :
          /\ allergyAlerts[k].drug = <<"A","m","o","x","i","c","i","l","l","i","n">>
          /\ allergyAlerts[k].allergen = <<"p","e","n","i","c","i","l","l","i","n">>
          /\ allergyAlerts[k].severity = <<"s","e","v","e","r","e">>
          /\ SubSeq(allergyAlerts[k].recommendation, 1, 15) = <<"C","O","N","T","R","A","I","N","D","I","C","A","T","E","D">>
          /\ Includes(allergyAlerts[k].recommendation, <<"c","o","n","t","a","i","n","s"," ","p","e","n","i","c","i","l","l","i","n">>)

\* the (medication, term) pairs in the order of the two nested forEach
AllergyPairs(nd, nt) ==
    [k \in 1..(nd * nt) |-> <<((k - 1) \div nt) + 1, ((k - 1) % nt) + 1>>]

\* how many rules fire for a medication name and a term
RulesFiring(name, term) ==
    (IF DirectPremise(name, term) THEN 1 ELSE 0)
    + Cardinality({c \in 1..Len(commonAllergicReactions) :
                      ClassPremise(name, term, commonAllergicReactions[c])})

RECURSIVE SumTo(_, _)
SumTo(counts, n) == IF n = 0 THEN 0 ELSE counts[n] + SumTo(counts, n - 1)

IsContraindicatedAlert(alert) ==
    SubSeq(alert.recommendation, 1, 15) = <<"C","O","N","T","R","A","I","N","D","I","C","A","T","E","D">>

\* C18: findings are not deduplicated. The allergy findings written are, for
\* each (medication, term) pair in turn, one finding if the direct rule
\* fires plus one per class whose rule fires, all naming that medication and
\* term, the direct finding first.
C18_NoDeduplication ==
    [][ AnalysisCompletes =>
          \E ds \in {Head(timers).drugs} :
          \E terms \in {AllergiesList(Head(timers).patientAllergies)} :
          \E prs \in {AllergyPairs(Len(ds), Len(terms))} :
          \E counts \in {[k \in 1..Len(prs) |->
                            RulesFiring(ds[prs[k][1]].name, terms[prs[k][2]])]} :
             /\ Len(allergyAlerts') = SumTo(counts, Len(prs))
             /\ \A k \in 1..Len(prs) :
                   \E off \in {SumTo(counts, k - 1)} :
                   \E name \in {ds[prs[k][1]].name} : \E term \in {terms[prs[k][2]]} :
                      \A m \in 1..counts[k] :
                         /\ allergyAlerts'[off + m].drug = name
                         /\ allergyAlerts'[off + m].allergen = term
                         /\ IF m = 1 /\ DirectPremise(name, term)
                            THEN IsAvoidAlert(allergyAlerts'[off + m], name, term)
                            ELSE IsContraindicatedAlert(allergyAlerts'[off + m])
      ]_vars

\* a medication and a term with two findings, the direct one first
C18_Witness ==
    /\ ~analyzing
    /\ \E k \in 1..(Len(allergyAlerts) - 1) :
          /\ allergyAlerts[k + 1].drug = allergyAlerts[k].drug
          /\ allergyAlerts[k + 1].allergen = allergyAlerts[k].allergen
          /\ IsAvoidAlert(allergyAlerts[k], allergyAlerts[k].drug, allergyAlerts[k].allergen)
          /\ IsContraindicatedAlert(allergyAlerts[k + 1])

----------------------------------------------------------------------------
(* Claims about ingestion (checked under SpecIngest and SpecDatasets)      *)

\* the step in which the pending read of the chosen file settles
ReadSettles == reads # <<>> /\ Len(reads') < Len(reads)

\* the settled read resolved: the catch clause's fallback message is the
\* mark of a read that rejected
ReadResolved == ReadSettles /\ toast' # FailedToast("Failed to parse dataset")

FailureRaised(tst) == tst.title = "Upload failed" /\ tst.variant = "destructive"

\* a field that is non-empty after trimming (a value that is no string
\* counts as the code's own test counts it)
NonEmptyTrimmed(v) == IF IsString(v) THEN Trim(v.s) # <<>> ELSE Truthy(v)

RetainedByClaim(item) ==
    /\ NonEmptyTrimmed(item.drug1) /\ NonEmptyTrimmed(item.drug2)
    /\ NonEmptyTrimmed(item.severity) /\ NonEmptyTrimmed(item.description)

\* C6: on both paths, the ingested table holds, in their original order,
\* exactly the parsed records whose drug1, drug2, severity and description
\* are all non-empty after trimming, and rowCount is their number.
C6_RetainedIffNonEmptyTrimmed ==
    [][ ReadResolved =>
          \A p \in {ParseFile(reads[1])} :
            ~p.threw =>
              \A kept \in {SelectSeq(p.parsedData, RetainedByClaim)} :
                (kept # <<>> \/ datasets' # datasets) =>
                  /\ Len(datasets') = Len(datasets) + 1
                  /\ datasets'[Len(datasets')].data = kept
                  /\ datasets'[Len(datasets')].rowCount = Len(kept)
      ]_vars

\* a field the row is missing: absent, or empty
Missing(v) == ~Truthy(v)

\* every element of the JSON array misses one of the four fields
JsonRowsAllMissing(text) ==
    \E r \in {JsonParse(text)} :
        /\ r.ok /\ r.v.t = "array"
        /\ \A k \in 1..Len(r.v.elems) :
              \/ r.v.elems[k].t = "null"
              \/ Missing(GetProp(r.v.elems[k], <<"d","r","u","g","1">>))
              \/ Missing(GetProp(r.v.elems[k], <<"d","r","u","g","2">>))
              \/ Missing(GetProp(r.v.elems[k], <<"s","e","v","e","r","i","t","y">>))
              \/ Missing(GetProp(r.v.elems[k], <<"d","e","s","c","r","i","p","t","i","o","n">>))

\* every data line of the CSV text misses one of the four columns (under
\* any of the header names the parser accepts for it)
CsvRowsAllMissing(text) ==
    \E lines \in {Split(text, "\n")} :
    \E headers \in {CsvHeaders(lines)}, rows \in {SelectSeq(Tail(lines), NonBlank)} :
        \A k \in 1..Len(rows) :
          \E values \in {CsvValues(rows[k])} :
            LET obj(key) == CsvObj(headers, values, key)
            IN  \/ Missing(Or(Or(obj(<<"d","r","u","g","1">>), obj(<<"d","r","u","g"," ","1">>)), obj(<<"d","r","u","g","n","a","m","e","1">>)))
                \/ Missing(Or(Or(obj(<<"d","r","u","g","2">>), obj(<<"d","r","u","g"," ","2">>)), obj(<<"d","r","u","g","n","a","m","e","2">>)))
                \/ Missing(obj(<<"s","e","v","e","r","i","t","y">>))
                \/ Missing(Or(obj(<<"d","e","s","c","r","i","p","t","i","o","n">>), obj(<<"i","n","t","e","r","a","c","t","i","o","n">>)))

\* C7: an upload, CSV or JSON, in which every row misses at least one of
\* drug1, drug2, severity, description creates no dataset.
C7_RejectsWhenEveryRowIncomplete ==
    [][ ReadSettles =>
          \A file \in {reads[1]} :
            ( \/ EndsWith(file.name, <<".","j","s","o","n">>) /\ JsonRowsAllMissing(file.text)
              \/ EndsWith(file.name, <<".","c","s","v">>) /\ CsvRowsAllMissing(file.text) )
            => datasets' = datasets
      ]_vars

\* the upload of file fails: its text does not parse, or the filter retains
\* no record of it
FailsToIngest(file) ==
    \E p \in {ParseFile(file)} : p.threw \/ validData(p.parsedData) = <<>>

\* C8: a failed upload changes no dataset state.  Neither the step that
\* starts an upload nor the step in which it fails changes the dataset list,
\* the active id or the dashboard's table; the failing step raises the
\* failure notification and clears the uploading flag.
C8_FailedUploadChangesNothing ==
    [][ /\ Len(reads') > Len(reads) =>
              UNCHANGED <<datasets, activeDatasetId, activeDataset>>
        /\ (ReadSettles /\ (FailsToIngest(reads[1]) \/ FailureRaised(toast'))) =>
              /\ UNCHANGED <<datasets, activeDatasetId, activeDataset>>
              /\ FailureRaised(toast')
              /\ uploading' = FALSE
      ]_vars

\* the upload of broken.json has failed while a dataset is listed and active
C8_Witness ==
    /\ reads = <<>> /\ ~uploading
    /\ inputFiles # <<>> /\ inputFiles[1].name = <<"b","r","o","k","e","n",".","j","s","o","n">>
    /\ FailureRaised(toast)
    /\ datasets # <<>> /\ ~activeDatasetId.null /\ ~activeDataset.null

\* C9: the upload of a file whose name ends in neither .json nor .csv ends
\* in the failure notification and adds no dataset, whatever its text.
C9_OtherExtensionRejected ==
    [][ ReadSettles =>
          \A file \in {reads[1]} :
            (~EndsWith(file.name, <<".","j","s","o","n">>) /\ ~EndsWith(file.name, <<".","c","s","v">>)) =>
              /\ FailureRaised(toast')
              /\ datasets' = datasets
      ]_vars

\* data.txt holding a well-formed CSV table was read and rejected for
\* holding no valid data
C9_Witness ==
    /\ reads = <<>> /\ ~uploading
    /\ inputFiles # <<>> /\ inputFiles[1].name = <<"d","a","t","a",".","t","x","t">>
    /\ inputFiles[1].text = <<"d","r","u","g","1",",","d","r","u","g","2",",","s","e","v","e","r","i","t","y",",","d","e","s","c","r","i","p","t","i","o","n">> \o <<"\n">> \o <<"a",",","b",",","m","i","l","d",",","x">>
    /\ toast = FailedToast(NoValidData)
    /\ datasets = <<>>

\* C10: the dashboard's table is the record list of a listed dataset whose
\* id the manager marks active, or null exactly when the manager marks none.
C10_ExactlyOneActiveTable ==
    IF activeDatasetId.null THEN activeDataset.null
    ELSE /\ ~activeDataset.null
         /\ \E k \in 1..Len(datasets) :
               /\ datasets[k].id = activeDatasetId.id
               /\ activeDataset.data = datasets[k].data

\* a dataset was deleted while another one stays active
C10_Witness ==
    /\ toast = DeletedToast
    /\ ~activeDatasetId.null
    /\ datasets # <<>>

\* only the delete button shortens the dataset list
DeleteStep == Len(datasets') < Len(datasets)

\* C11: a delete removes the dataset from the list; when it was the active
\* one, the manager's active id and the dashboard's table are cleared, so the
\* next analysis reads the built-in table; when it was not, both are kept.
C11_DeleteRemovesAndDeactivatesIfActive ==
    [][DeleteStep =>
          \E k \in 1..Len(datasets) :
             /\ datasets' = SelectSeq(datasets, LAMBDA d : d.id # datasets[k].id)
             /\ \A j \in 1..Len(datasets') : datasets'[j].id # datasets[k].id
             /\ IF IsActive(datasets[k])
                THEN /\ activeDatasetId' = NullId
                     /\ activeDataset' = NullTable
                     /\ FoundInteractions(drugs', activeDataset') = mockInteractions
                ELSE /\ activeDatasetId' = activeDatasetId
                     /\ activeDataset' = activeDataset]_vars

\* the active dataset was deleted while another one stays in the list
C11_Witness ==
    /\ toast = DeletedToast
    /\ activeDatasetId = NullId
    /\ activeDataset = NullTable
    /\ Len(datasets) = 1

\* C12: every started analysis completes: when its delayed callback runs, the
\* busy flag is cleared and both findings lists are replaced by the ones
\* computed from the values the analysis started with (the built-in table or
\* at most one finding per pair of medications, and the allergy findings).
C12_StartedAnalysisCompletes ==
    [][CallbackRuns =>
          \E c \in {Head(timers)} :
             /\ analyzing' = FALSE
             /\ allergyAlerts' = FoundAllergies(c.drugs, c.patientAllergies)
             /\ IF UsesDataset(c.activeDataset)
                THEN Len(results') <= Len(Pairs(Len(c.drugs)))
                ELSE results' = mockInteractions]_vars

\* C13: while a delayed completion is pending the busy flag is set and the
\* analyze control is disabled, and at most one completion is pending.
C13_AtMostOneAnalysisInFlight ==
    /\ Len(timers) <= 1
    /\ timers # <<>> => analyzing /\ ~AnalyzeEnabled

\* a second analysis is in flight after the first one completed
C13_Witness ==
    /\ timers # <<>>
    /\ analyzing
    /\ allergyAlerts # <<>>

\* the finding an analysis of the two entries a, b (in this order) writes
\* for a lookup outcome f
FindingsOf(f, a, b) ==
    IF f.kind = "found"
    THEN <<[severity |-> f.item[1].severity,
            drugs |-> <<a.name, b.name>>,
            description |-> f.item[1].description,
            recommendation |-> f.item[1].recommendation]>>
    ELSE <<>>

\* C14: matching is symmetric. For every two entries of an analysis on an
\* uploaded table, the lookup with the two names exchanged has the same
\* outcome (the same record, or none); and a completed analysis of two
\* entries writes what the analysis of the same entries in the other order
\* computes, apart from the order of the two displayed names.
C14_MatchingIsSymmetric ==
    [][(CallbackRuns /\ UsesDataset(Head(timers).activeDataset)) =>
          \E ds \in {Head(timers).drugs} : \E T \in {Head(timers).activeDataset.data} :
             /\ \A i, j \in 1..Len(ds) :
                   i < j => Lookup(ds, T, <<i, j>>) = Lookup(ds, T, <<j, i>>)
             /\ (AnalysisCompletes /\ Len(ds) = 2) =>
                   \E g \in {Lookup(<<ds[2], ds[1]>>, T, <<1, 2>>)} :
                      results' = FindingsOf(g, ds[1], ds[2])]_vars

\* a completed analysis of two entries found a record that names them in
\* the other order
C14_Witness ==
    /\ ~analyzing
    /\ Len(drugs) = 2
    /\ UsesDataset(activeDataset)
    /\ Len(results) = 1
    /\ \E k \in 1..Len(activeDataset.data) :
          \E r \in {activeDataset.data[k]} :
             /\ IsString(r.drug1) /\ IsString(r.drug2)
             /\ r.description = results[1].description
             /\ Includes(ToLowerCase(r.drug1.s), ToLowerCase(drugs[2].name))
             /\ Includes(ToLowerCase(r.drug2.s), ToLowerCase(drugs[1].name))
             /\ ~Includes(ToLowerCase(r.drug1.s), ToLowerCase(drugs[1].name))

----------------------------------------------------------------------------
(* Claims about the export (checked under SpecExport)                      *)

\* a === b for two field values
SameValue(a, b) ==
    IF a.t = "number" /\ b.t = "number"
    THEN NumberToString(a.s) = NumberToString(b.s)
    ELSE a = b

SameRecord(a, b) ==
    /\ SameValue(a.drug1, b.drug1)
    /\ SameValue(a.drug2, b.drug2)
    /\ SameValue(a.severity, b.severity)
    /\ SameValue(a.description, b.description)
    /\ SameValue(a.recommendation, b.recommendation)
    /\ SameValue(a.mechanism, b.mechanism)
    /\ SameValue(a.evidence_level, b.evidence_level)

----------------------------------------------------------------------------
(* Claims about names (checked under SpecNames)                            *)

\* the containment match of the glossary: either string is a substring of
\* the other after case normalization
ContainmentMatch(a, b) ==
    \E x \in {ToLowerCase(a)} : \E y \in {ToLowerCase(b)} :
       Includes(x, y) \/ Includes(y, x)

RecordContainmentMatches(r, nameI, nameJ) ==
    /\ IsString(r.drug1) /\ IsString(r.drug2)
    /\ \/ ContainmentMatch(r.drug1.s, nameI) /\ ContainmentMatch(r.drug2.s, nameJ)
       \/ ContainmentMatch(r.drug1.s, nameJ) /\ ContainmentMatch(r.drug2.s, nameI)

\* C16: in interaction matching the containment match holds in either
\* direction: a pair of entries gets a finding whenever some record's two
\* names each contain, or are contained in, the two entered names (entered
\* 'aspirin 81mg' matches a record naming 'aspirin').
C16_ContainmentInEitherDirection ==
    [][(CallbackRuns /\ UsesDataset(Head(timers).activeDataset)) =>
          \E ds \in {Head(timers).drugs} : \E T \in {Head(timers).activeDataset.data} :
             \A i, j \in 1..Len(ds) :
                (/\ i < j
                 /\ \E k \in 1..Len(T) :
                       RecordContainmentMatches(T[k], ds[i].name, ds[j].name))
                => \E n \in 1..Len(results') :
                      results'[n].drugs = <<ds[i].name, ds[j].name>>]_vars

\* the entries with the white space around their names removed
TrimmedNames(ds) == [k \in 1..Len(ds) |-> [ds[k] EXCEPT !.name = Trim(@)]]

\* which findings a list of alerts holds: per alert the medication and the
\* allergy term, both without surrounding white space, and the rule's
\* severity and symptom text
FindingsEmitted(alerts) ==
    [k \in 1..Len(alerts) |->
        <<Trim(alerts[k].drug), Trim(alerts[k].allergen),
          alerts[k].severity, alerts[k].symptoms>>]

\* C17: white space around a medication name or an allergy term never
\* changes which allergy findings are emitted: the findings an analysis
\* writes are those computed for the same entries with the white space
\* around their names removed.
C17_WhitespaceNeverChangesFindings ==
    [][CallbackRuns =>
          \E c \in {Head(timers)} :
             FindingsEmitted(allergyAlerts')
                = FindingsEmitted(FoundAllergies(TrimmedNames(c.drugs),
                                                 c.patientAllergies))]_vars

----------------------------------------------------------------------------
(* Claims about the CSV path (checked under SpecIngest)                    *)

\* the step in which a file read as CSV is ingested with success
CsvIngested ==
    /\ ReadResolved
    /\ EndsWith(reads[1].name, <<".","c","s","v">>)
    /\ Len(datasets') = Len(datasets) + 1

\* the severity the claim gives a data line: 'mild' when no column is
\* headed severity, or the line's cell in that column is missing or empty,
\* else the lowercased cell
ClaimedSeverity(headers, values) ==
    IF \E k \in 1..Len(headers) : headers[k] = <<"s","e","v","e","r","i","t","y">>
    THEN Only({ IF pos <= Len(values) /\ values[pos] # <<>>
                THEN ToLowerCase(values[pos])
                ELSE mild
                : pos \in {CHOOSE k \in 1..Len(headers) :
                              /\ headers[k] = <<"s","e","v","e","r","i","t","y">>
                              /\ \A j \in (k + 1)..Len(headers) : headers[j] # <<"s","e","v","e","r","i","t","y">>} })
    ELSE mild

ClaimedCell(cell) ==
    Only({ IF Len(t) >= 2 /\ t[1] = "\"" /\ t[Len(t)] = "\""
           THEN SubSeq(t, 2, Len(t) - 1)
           ELSE t
           : t \in {Trim(cell)} })

\* C20: every non-blank data line is split on commas, and the value stored
\* for the drug1 column is the trimmed cell without its surrounding quotes,
\* with the quotes that are not surrounding left in place.
C20_OnlySurroundingQuotesStripped ==
    [][CsvIngested =>
          \E lines \in {Split(reads[1].text, "\n")} :
          \E headers \in {CsvHeaders(lines)} :
          \E kept \in {SelectSeq(SelectSeq(Tail(lines), NonBlank),
                                 LAMBDA line : IsValid(CsvRecord(headers, line)))} :
          \E nd \in {datasets'[Len(datasets')]} :
             /\ Len(nd.data) = Len(kept)
             /\ \A k \in 1..Len(kept) :
                   headers[1] = <<"d","r","u","g","1">> =>
                      nd.data[k].drug1 = Str(ClaimedCell(Split(kept[k], ",")[1]))]_vars

----------------------------------------------------------------------------
(* Claims about the manager's uploads (checked under SpecDatasets)         *)

\* C21: a second upload can be started while an earlier upload is still
\* being read: whenever a read is pending (and the list can take another
\* dataset), choosing a file starts another upload.
C21_SecondUploadNotPrevented ==
    (reads # <<>> /\ Len(datasets) < MaxDatasets)
        => ENABLED (\E file \in UploadFiles : handleFileUpload(file))

\* C21 as amended: from the start of an upload until its read settles the
\* file input is disabled, so no second upload can be started and at most
\* one read is pending.
C21_OneUploadAtATime ==
    /\ Len(reads) <= 1
    /\ reads # <<>> =>
          /\ uploading
          /\ ~ENABLED (\E file \in UploadFiles : handleFileUpload(file))

\* a second upload is being read after the first one was ingested
C21_Witness ==
    /\ reads # <<>>
    /\ uploading
    /\ datasets # <<>>

----------------------------------------------------------------------------
(* Claims about the dashboard's handlers (checked under SpecDashboard)     *)

UniqueIds(ds) == \A i, j \in 1..Len(ds) : i # j => ds[i].id # ds[j].id

\* C22: after every step the identifiers of the medication entries are
\* pairwise distinct, and a step that removes from the list removes exactly
\* one entry and leaves the others in place and in order.
C22_EntryIdsUnique ==
    [][/\ UniqueIds(drugs')
       /\ Len(drugs') < Len(drugs) =>
             \E k \in 1..Len(drugs) : drugs' = RemoveAt(drugs, k)]_vars

----------------------------------------------------------------------------
(* Claims about the handlers together (checked under SpecSession)          *)

\* C23: the findings a completing analysis writes are those of the
\* medication list, the allergy text and the table as they were when
\* analyze was clicked, whatever the handlers changed during the delay.
C23_FindingsFromValuesAtClick ==
    [][AnalysisCompletes =>
          \E c \in {Head(timers)} :
             /\ results' = FoundInteractions(c.drugs, c.activeDataset)
             /\ allergyAlerts' = FoundAllergies(c.drugs, c.patientAllergies)]_vars

\* an analysis is pending, and the medication list, the allergy text and
\* the table have all changed since its click
C23_Witness ==
    /\ timers # <<>>
    /\ Head(timers).drugs # drugs
    /\ Head(timers).patientAllergies # patientAllergies
    /\ Head(timers).activeDataset # activeDataset

\* C24: only the completion of an analysis changes the interaction findings
\* or the allergy findings; every other handler leaves both lists as they
\* are.
C24_OnlyCompletionWritesFindings ==
    [][(results' # results \/ allergyAlerts' # allergyAlerts)
          => AnalysisCompletes]_vars

\* the findings shown come from the uploaded table, which is no longer
\* active, and name a medication that is no longer in the list
C24_Witness ==
    /\ ~analyzing
    /\ activeDataset = NullTable
    /\ Len(results) = 1
    /\ results[1].description = Str(<<"d","1">>)
    /\ \A k \in 1..Len(drugs) : drugs[k].name # results[1].drugs[2]

----------------------------------------------------------------------------
(* Claims about a successful upload (checked under SpecDatasets)           *)

\* C25: a successful upload appends exactly one dataset to the end of the
\* list, every dataset before it keeping its place and contents, and leaves
\* the active id and the dashboard's table as they are; the dashboard's
\* table changes to an uploaded one only by an activate.
C25_UploadAppendsWithoutActivating ==
    [][/\ (ReadResolved /\ toast'.title = "Dataset uploaded successfully") =>
             /\ Len(datasets') = Len(datasets) + 1
             /\ SubSeq(datasets', 1, Len(datasets)) = datasets
             /\ datasets'[Len(datasets')].data = Ingest(reads[1]).parsedData
             /\ activeDatasetId' = activeDatasetId
             /\ activeDataset' = activeDataset
       /\ (activeDataset' # activeDataset /\ ~activeDataset'.null) =>
             /\ toast'.title = "Dataset activated"
             /\ datasets' = datasets]_vars

\* a second dataset was ingested while the first one stays the active one
C25_Witness ==
    /\ toast.title = "Dataset uploaded successfully"
    /\ Len(datasets) = 2
    /\ datasets[2].data # datasets[1].data
    /\ activeDatasetId = Id(datasets[1].id)
    /\ activeDataset = Table(datasets[1].data)

====
